---- MODULE Spec2Model ----
(***************************************************************************)
(* A model of the angular-characterization controller:                     *)
(*   - convert_signed and move_stage_to        (src/procedures.py)         *)
(*   - PeakFinding.execute                     (src/procedures_peak_finding.py) *)
(*                                                                         *)
(* Units.  Angles are integers in units of 1e-4 deg (45 deg = 450000).     *)
(* Currents are integers in units of 1e-13 A (1 nA = 10000).  All the      *)
(* arithmetic of the source that the model uses (subtraction, floor        *)
(* division by 180, halving, np.isclose) is exact on these values.         *)
(***************************************************************************)
EXTENDS Integers, Sequences, FiniteSets, TLC

VARIABLES
    proc,          \* which entry point of the program this behaviour runs
    \* ---- convert_signed driver
    cpc, cx, cy, cz,
    \* ---- the stages (the devices, outside the program)
    pos,           \* pos[a]: the position the device of axis a reports
    inflight,      \* inflight[a]: move_by commands sent to a and not yet completed
    env,           \* "ideal" | "faulty" | "free": how the devices behave
    \* ---- move_stage_to (one activation)
    mpc,           \* "idle" | "attempt" | "poll" | "final" | "returned" | "raised"
    m_stage,       \* parameter stage
    targ_pos,      \* parameter targ_pos
    blocking,      \* parameter blocking
    num_retries,   \* parameter num_retries
    attempt,       \* index of the current pass of `for _ in range(num_retries)`
    check,         \* local check
    init_read,     \* the raw stage.pos read of line 85 in the current attempt
    offset,        \* local offset, as sent to move_by
    nmoves,        \* history: move_by commands sent by this activation
    seen_close,    \* history: some poll or final read was np.isclose to targ_pos
    loop_exit,     \* history: how the polling loop of the current attempt ended
    \* ---- the running procedure (PeakFinding.execute, ...)
    pc,            \* control point of the procedure
    angle_step,    \* parameter angle_step ("Initial Angle Step")
    threshold,     \* parameter threshold ("Current Tolerance")
    max_meas,      \* parameter max_meas ("Max Samples")
    stage,         \* local stage: the axis the jogs go to
    step_size, curr_tol, i, n_reverse, n_refine, k,
    prev_meas, jog_dir, peak_meas, peak_loc, new_meas,
    \* ---- the devices the procedure drives
    jog_step,      \* jog_step[a]: the jog step programmed into axis a
    stop_flag,     \* what should_stop() returns
    resp,          \* the response of the detector current to the angles
    \* ---- history of the procedure
    njogs,         \* njogs[a]: jog commands sent to axis a
    nreads,        \* instrument reads (get_current)
    nemits,        \* "results" records emitted
    nsetjog,       \* set_jog_step commands sent
    halvings,      \* times step_size was halved
    exit_state,    \* how the loop was left: "converged" | "budget" | "cancelled",
                   \* or the exception that ended the procedure
    \* ---- the sweep procedures and level_axes
    par,           \* the angle parameters of the sweep (start, stop, step per axis)
    sweep_roll, sweep_pitch,
    n_steps_roll, n_steps_pitch,
    roll_dir, pitch_dir,  \* jog directions 1 or 2; 0 while the local is unbound
    oi, oj,        \* the loop variables i and j of the sweep's for loops
    pcheck,        \* local check of the procedure's own polling loops
    homed,         \* homed[a]: status_homed of axis a (device)
    passes,        \* passes[a]: threshold passes made on axis a since the last
                   \* halving (history)
    \* ---- the picoammeter (src/keithley.py)
    wire,          \* the commands written to the instrument, in order
    kargs,         \* the last method called and its arguments
    kcalls,        \* number of method calls made
    \* ---- what the procedures sent and emitted (history)
    events,        \* the commands of the current ramp of the velocity sweep,
                   \* in the order they were sent; it stays empty where
                   \* the helper names are unbound, since no ramp then
                   \* gets as far as its first command
    emitted,       \* the records emitted by the last ramp or by the sweep, in
                   \* emission order; for the peak search the last record
                   \* alone, with the largest reading of the loop so far
                   \* (top) and the reversal count at its emission (k)
    late_polls,    \* passes of polling loops made while the stop flag was
                   \* set, counted up to LateCap
    \* ---- the oscillation tasks and the sampling task
    osc,           \* osc[a]: the oscillation task of axis a
    samp           \* the sampling task

kVars     == <<wire, kargs, kcalls>>
logVars   == <<events, emitted>>
oscVars   == <<osc, samp>>
auxVars   == <<logVars, late_polls, oscVars>>
convVars  == <<cpc, cx, cy, cz>>
stageVars == <<pos, inflight, env>>
moveVars  == <<mpc, m_stage, targ_pos, blocking, num_retries, attempt, check,
               init_read, offset, nmoves, seen_close, loop_exit>>
peakVars  == <<angle_step, threshold, max_meas, stage, step_size, curr_tol, i,
               n_reverse, n_refine, k, prev_meas, jog_dir, peak_meas,
               peak_loc, new_meas>>
devVars   == <<jog_step, stop_flag, resp>>
histVars  == <<njogs, nreads, nemits, nsetjog, halvings, exit_state, passes>>
sweepVars == <<par, sweep_roll, sweep_pitch, n_steps_roll, n_steps_pitch,
               roll_dir, pitch_dir, oi, oj, pcheck, homed>>
procVars  == <<pc, peakVars, devVars, histVars, sweepVars>>
vars      == <<proc, kVars, auxVars, convVars, stageVars, moveVars, procVars>>

Axes == {"roll", "pitch"}
None == "none"
\* a number variable that holds no value yet
NoValue == -(2 ^ 30) - 1

\* angles are in units of 10^(-DegDigits) deg, currents in units of
\* 10^(-AmpDigits) A, the tolerance in units of 10^(-TolDigits) nA
DegDigits == 4
AmpDigits == 13
TolDigits == 4
\* sweep voltages are in units of 10^(-VoltDigits) V, bias voltages in
\* units of 10^(-BiasDigits) V
VoltDigits == 2
BiasDigits == 4
\* one degree, in model units
DEG == 10 ^ DegDigits

Abs(x) == IF x < 0 THEN -x ELSE x

(***************************************************************************)
(* Double-precision arithmetic                                             *)
(*                                                                         *)
(* The code computes on Python and numpy doubles.  A decimal value of the  *)
(* model is the double nearest to it, as the literal is in the code.  A    *)
(* natural number of any size is the sequence of its digits in base 2^15,  *)
(* lowest first and without leading zeros; a double is a sign and m * 2^x  *)
(* with m such a number of at most 53 bits.  Each operation computes the   *)
(* exact result and rounds it to 53 bits, ties to even, as IEEE 754 does;  *)
(* the values met here are far from the range where doubles overflow or    *)
(* lose precision to denormals.                                            *)
(***************************************************************************)
Base == 2 ^ 15
BaseBits == 15

RECURSIVE BOf(_)
BOf(n) == IF n = 0 THEN <<>> ELSE <<n % Base>> \o BOf(n \div Base)

RECURSIVE BTrim(_)
BTrim(a) ==
    IF a = <<>> \/ a[Len(a)] # 0 THEN a
    ELSE BTrim(SubSeq(a, 1, Len(a) - 1))

BDigit(a, j) == IF j <= Len(a) THEN a[j] ELSE 0
BRest(a) == IF a = <<>> THEN <<>> ELSE Tail(a)

RECURSIVE BAddC(_, _, _)
BAddC(a, b, c) ==
    IF a = <<>> /\ b = <<>>
    THEN IF c = 0 THEN <<>> ELSE <<c>>
    ELSE LET s == BDigit(a, 1) + BDigit(b, 1) + c
         IN  <<s % Base>> \o BAddC(BRest(a), BRest(b), s \div Base)
BAdd(a, b) == BAddC(a, b, 0)

\* a - b for a >= b
RECURSIVE BSubC(_, _, _)
BSubC(a, b, c) ==
    IF a = <<>> THEN <<>>
    ELSE LET d == a[1] - BDigit(b, 1) - c
         IN  <<d % Base>> \o BSubC(Tail(a), BRest(b), IF d < 0 THEN 1 ELSE 0)
BSub(a, b) == BTrim(BSubC(a, b, 0))

RECURSIVE BLessAt(_, _, _)
BLessAt(a, b, j) ==
    IF j = 0 THEN FALSE
    ELSE IF a[j] # b[j] THEN a[j] < b[j]
    ELSE BLessAt(a, b, j - 1)
BLess(a, b) ==
    IF Len(a) # Len(b) THEN Len(a) < Len(b) ELSE BLessAt(a, b, Len(a))

\* a * c for a digit c
RECURSIVE BMulC(_, _, _)
BMulC(a, c, carry) ==
    IF a = <<>> THEN (IF carry = 0 THEN <<>> ELSE <<carry>>)
    ELSE LET p == a[1] * c + carry
         IN  <<p % Base>> \o BMulC(Tail(a), c, p \div Base)
BMulDigit(a, c) == IF c = 0 THEN <<>> ELSE BMulC(a, c, 0)

RECURSIVE BMul(_, _)
BMul(a, b) ==
    IF a = <<>> \/ b = <<>> THEN <<>>
    ELSE LET rest == BMul(a, Tail(b))
         IN  BAdd(BMulDigit(a, b[1]),
                  IF rest = <<>> THEN <<>> ELSE <<0>> \o rest)

\* a * 2^sh
BShl(a, sh) ==
    IF a = <<>> THEN <<>>
    ELSE [j \in 1..(sh \div BaseBits) |-> 0]
            \o BMulDigit(a, 2 ^ (sh % BaseBits))

\* quotient and remainder of a by a digit d, the digits of a taken from the
\* highest down
RECURSIVE BDivAt(_, _, _, _, _)
BDivAt(a, d, j, q, r) ==
    IF j = 0 THEN [q |-> BTrim(q), r |-> r]
    ELSE LET t == r * Base + a[j]
         IN  BDivAt(a, d, j - 1, <<t \div d>> \o q, t % d)
BDivDigit(a, d) == BDivAt(a, d, Len(a), <<>>, 0)

\* floor(a / 2^sh), and whether a bit was lost
BShr(a, sh) ==
    LET n == sh \div BaseBits
        low == IF n >= Len(a) THEN a ELSE SubSeq(a, 1, n)
        high == IF n >= Len(a) THEN <<>> ELSE SubSeq(a, n + 1, Len(a))
        qr == BDivDigit(high, 2 ^ (sh % BaseBits))
    IN  [q |-> qr.q,
         lost |-> qr.r # 0 \/ \E j \in 1..Len(low) : low[j] # 0]

\* the number of bits of a digit and of a number
RECURSIVE DigitBits(_)
DigitBits(c) == IF c = 0 THEN 0 ELSE 1 + DigitBits(c \div 2)
BBits(a) ==
    IF a = <<>> THEN 0
    ELSE BaseBits * (Len(a) - 1) + DigitBits(a[Len(a)])

\* the number of bits of a double's significand
SigBits == 53

\* m * 2^x rounded to SigBits bits, ties to even
FRound(neg, m, x) ==
    IF BBits(m) <= SigBits THEN [neg |-> neg, m |-> m, x |-> x]
    ELSE LET sh == BBits(m) - SigBits
             t == BShr(m, sh - 1)
             h == BDivDigit(t.q, 2)
             up == h.r = 1 /\ (t.lost \/ h.q[1] % 2 = 1)
         IN  [neg |-> neg,
              m |-> IF up THEN BAdd(h.q, <<1>>) ELSE h.q,
              x |-> x + sh]

\* a / 5^sh rounded down, and whether a remainder was lost
RECURSIVE BDivPow5(_, _)
BDivPow5(a, sh) ==
    IF sh = 0 THEN [q |-> a, lost |-> FALSE]
    ELSE LET j == IF sh > 6 THEN 6 ELSE sh
             qr == BDivDigit(a, 5 ^ j)
             rest == BDivPow5(qr.q, sh - j)
         IN  [q |-> rest.q, lost |-> rest.lost \/ qr.r # 0]

\* the double nearest to n * 10^(-sh), as float("<n>e-<sh>") is
FDec(n, sh) ==
    IF n = 0 THEN [neg |-> FALSE, m |-> <<>>, x |-> 0]
    ELSE LET s == SigBits + 3 + 3 * sh
             d == BDivPow5(BShl(BOf(Abs(n)), s), sh)
         IN  FRound(n < 0,
                    BAdd(BMulDigit(d.q, 2), IF d.lost THEN <<1>> ELSE <<>>),
                    -s - sh - 1)

\* f * 2^(-e): exact in doubles
FScale(f, e) == [f EXCEPT !.x = @ - e]

FAbs(f) == [f EXCEPT !.neg = FALSE]
FNeg(f) == [f EXCEPT !.neg = ~@]

\* the significand of f over the exponent x, the lower exponent of f and g
FLow(f, g) == IF f.x < g.x THEN f.x ELSE g.x
FOver(f, x) == BShl(f.m, f.x - x)

FAdd(f, g) ==
    LET x == FLow(f, g)
        a == FOver(f, x)
        b == FOver(g, x)
    IN  IF f.neg = g.neg THEN FRound(f.neg, BAdd(a, b), x)
        ELSE IF BLess(a, b) THEN FRound(g.neg, BSub(b, a), x)
        ELSE IF a = b THEN [neg |-> FALSE, m |-> <<>>, x |-> 0]
        ELSE FRound(f.neg, BSub(a, b), x)
FSub(f, g) == FAdd(f, FNeg(g))

FMul(f, g) ==
    IF f.m = <<>> \/ g.m = <<>> THEN [neg |-> FALSE, m |-> <<>>, x |-> 0]
    ELSE FRound(f.neg # g.neg, BMul(f.m, g.m), f.x + g.x)

\* the largest digit c in lo..hi with b * c <= r
RECURSIVE BDigitQ(_, _, _, _)
BDigitQ(r, b, lo, hi) ==
    IF lo = hi THEN lo
    ELSE LET mid == (lo + hi + 1) \div 2
         IN  IF BLess(r, BMulDigit(b, mid)) THEN BDigitQ(r, b, lo, mid - 1)
             ELSE BDigitQ(r, b, mid, hi)

\* quotient and remainder of a by b # 0, the digits of a taken from the
\* highest down (the lengths are taken so that q and r are computed before
\* the next digit is)
RECURSIVE BDivBigAt(_, _, _, _, _)
BDivBigAt(a, b, j, q, r) ==
    IF j = 0 \/ Len(q) + Len(r) < 0 THEN [q |-> BTrim(q), r |-> r]
    ELSE LET t == BTrim(<<a[j]>> \o r)
             c == BDigitQ(t, b, 0, Base - 1)
         IN  BDivBigAt(a, b, j - 1, <<c>> \o q, BSub(t, BMulDigit(b, c)))
BDivBig(a, b) == BDivBigAt(a, b, Len(a), <<>>, <<>>)

\* f / g for g # 0
FDiv(f, g) ==
    IF f.m = <<>> THEN [neg |-> FALSE, m |-> <<>>, x |-> 0]
    ELSE LET s == 2 * SigBits + 2
             d == BDivBig(BShl(f.m, s), g.m)
         IN  FRound(f.neg # g.neg,
                    BAdd(BMulDigit(d.q, 2),
                         IF d.r # <<>> THEN <<1>> ELSE <<>>),
                    f.x - g.x - s - 1)

\* the value of a number small enough to be an integer of the model
RECURSIVE BVal(_)
BVal(a) == IF a = <<>> THEN 0 ELSE a[1] + Base * BVal(Tail(a))

\* int(f): f truncated towards zero
FInt(f) ==
    LET v == IF f.x >= 0 THEN BVal(BShl(f.m, f.x))
             ELSE BVal(BShr(f.m, -f.x).q)
    IN  IF f.neg THEN -v ELSE v

\* f < g
FLess(f, g) ==
    LET x == FLow(f, g)
        a == FOver(f, x)
        b == FOver(g, x)
    IN  IF f.m = <<>> /\ g.m = <<>> THEN FALSE
        ELSE IF f.neg # g.neg THEN f.neg
        ELSE IF f.neg THEN BLess(b, a)
        ELSE BLess(a, b)
FLeq(f, g) == ~FLess(g, f)

(***************************************************************************)
(* np.isclose(a, b, atol=atol) with the default rtol = 1e-5:               *)
(*     |a - b| <= atol + rtol * |b|                                        *)
(* a and b are in units of 10^(-digits) and atolE5 is atol * 1e5 in those  *)
(* units.  When |a - b| * 1e5 differs from atolE5 + |b| it does so by one  *)
(* part in 1e5 of a unit at least, far more than the doubles can err, and  *)
(* the comparison of the integers is the code's; when the two are equal    *)
(* the rounding of the doubles decides (np.isclose(200.012, 200.0,         *)
(* atol=0.01) is False: 200.012 - 200.0 is 0.012000000000000455).          *)
(***************************************************************************)
IsCloseDouble(a, b, atolE5, digits) ==
    FLeq(FAbs(FSub(FDec(a, digits), FDec(b, digits))),
         FAdd(FDec(atolE5, digits + 5),
              FMul(FDec(1, 5), FAbs(FDec(b, digits)))))

\* atol = 0.01 deg = 100 units, times 1e5
PosAtolE5 == 10000000

\* the ties that the runs meet, and what the doubles make of each, computed
\* once
CloseTies == { <<200102, 200000, PosAtolE5, DegDigits>> }
CloseAtTies ==
    { [in |-> in, close |-> IsCloseDouble(in[1], in[2], in[3], in[4])] :
        in \in CloseTies }

IsClose(a, b, atolE5, digits) ==
    LET d == Abs(a - b)
        q == (atolE5 + Abs(b)) \div 100000
        r == (atolE5 + Abs(b)) % 100000
        in == <<a, b, atolE5, digits>>
    IN  IF d = q /\ r = 0
        THEN IF in \in CloseTies
             THEN (CHOOSE w \in CloseAtTies : w.in = in).close
             ELSE IsCloseDouble(a, b, atolE5, digits)
        ELSE d <= q

PosClose(p, t) == IsClose(p, t, PosAtolE5, DegDigits)

(***************************************************************************)
(* step_size, curr_tol and the step passed to set_jog_step are halved by   *)
(* the code any number of times, which is exact in doubles: such a value   *)
(* is n / 2^e model units.                                                 *)
(***************************************************************************)
Dy(n) == [n |-> n, e |-> 0]
DyAbs(x) == [x EXCEPT !.n = Abs(@)]
\* x <= y
DyLeq(x, y) == x.n * (2 ^ y.e) <= y.n * (2 ^ x.e)
\* x < c for a whole number c of units
DyBelow(x, c) == x.n < c * (2 ^ x.e)

(***************************************************************************)
(* set_jog_step sends the stage int(step * stage._EncCnt) encoder counts   *)
(* (line 59), the product taken in doubles and truncated.  The counts per  *)
(* degree come with the stage object; here a count is the unit of the      *)
(* positions, EncCnt counts to the degree.  When the step is a whole       *)
(* number of units the double product may fall just below it (0.0401 *     *)
(* 10000 is 400.99999999999994, 400 counts); a step off the whole units is *)
(* further from them than the doubles' error and is truncated as the exact *)
(* quotient is.  The counts of the whole steps the runs program are        *)
(* computed once.                                                          *)
(***************************************************************************)
EncCnt == 10 ^ DegDigits
JogCountsDouble(x) ==
    FInt(FMul(FScale(FDec(x.n, DegDigits), x.e), FDec(EncCnt, 0)))
WholeSteps ==
    { Dy(1000),
      Dy(8000),
      Dy(1750),
      Dy(875),
      Dy(500),
      Dy(4000),
      Dy(2000),
      Dy(5000),
      Dy(10000),
      Dy(300),
      Dy(3000) }
JogCountsAtWhole ==
    { [in |-> x, counts |-> JogCountsDouble(x)] : x \in WholeSteps }
jog_step_size(x) ==
    IF x.n % (2 ^ x.e) = 0
    THEN IF x \in WholeSteps
         THEN (CHOOSE w \in JogCountsAtWhole : w.in = x).counts
         ELSE JogCountsDouble(x)
    ELSE x.n \div (2 ^ x.e)

(***************************************************************************)
(* convert_signed(pos)                                                     *)
(*     if pos >= 0.0: return pos - (pos // 180) * 360                      *)
(*     return pos                                                          *)
(***************************************************************************)
convert_signed_half(p) ==
    \* mutant: wraps by a half turn instead of a full turn
    IF p >= 180 * DEG THEN p - 180 * DEG ELSE p

convert_signed(p) ==
    IF p >= 0 THEN p - (p \div (180 * DEG)) * (360 * DEG) ELSE p

\* the parts of the state a behaviour does not use
KOff == wire = <<>> /\ kargs = [m |-> "none"] /\ kcalls = 0
\* an oscillation task and the sampling task before they are started
OscIdle ==
    [state |-> "off", dir |-> 0, last |-> NoValue, prev |-> NoValue,
     polls |-> 0, cmds |-> 0, stops |-> 0, late |-> 0]
SampIdle == [state |-> "off", n |-> 0, late |-> 0]
OscOff == osc = [a \in Axes |-> OscIdle] /\ samp = SampIdle
\* late_polls stops counting here
LateCap == 2
\* a polling loop makes one more pass: the pass is late when the stop flag
\* is already set
LatePoll ==
    IF stop_flag /\ late_polls < LateCap THEN late_polls + 1 ELSE late_polls
AuxOff == events = <<>> /\ emitted = <<>> /\ late_polls = 0 /\ OscOff
ConvOff == cpc = "off" /\ cx = 0 /\ cy = None /\ cz = None
StageOff ==
    pos = [a \in Axes |-> 0] /\ inflight = [a \in Axes |-> 0] /\ env = "free"
MoveOff ==
    /\ mpc = "idle" /\ m_stage = None /\ targ_pos = 0 /\ blocking = FALSE
    /\ num_retries = 0 /\ attempt = 0 /\ check = 0 /\ init_read = NoValue
    /\ offset = NoValue /\ nmoves = 0 /\ seen_close = FALSE /\ loop_exit = None
PeakOff ==
    /\ angle_step = 0 /\ threshold = 0 /\ max_meas = 0 /\ stage = None
    /\ step_size = Dy(0) /\ curr_tol = Dy(0) /\ i = 0 /\ n_reverse = 0
    /\ n_refine = 0
    /\ k = 0 /\ prev_meas = NoValue /\ jog_dir = 1 /\ peak_meas = 0
    /\ peak_loc = <<0, 0>> /\ new_meas = NoValue
HistOff ==
    /\ njogs = [a \in Axes |-> 0] /\ nreads = 0 /\ nemits = 0 /\ nsetjog = 0
    /\ halvings = 0 /\ exit_state = None
    /\ passes = [a \in Axes |-> 0]
SweepOff ==
    /\ par = None /\ sweep_roll = FALSE /\ sweep_pitch = FALSE
    /\ n_steps_roll = 0 /\ n_steps_pitch = 0 /\ roll_dir = 0
    /\ pitch_dir = 0 /\ oi = 0 /\ oj = 0 /\ pcheck = 0
    /\ homed = [a \in Axes |-> FALSE]
ProcOff ==
    /\ pc = "off" /\ PeakOff /\ HistOff /\ SweepOff
    /\ jog_step = [a \in Axes |-> Dy(0)] /\ stop_flag = FALSE /\ resp = None

--------------------------------------------------------------------------
(***************************************************************************)
(* Driver for convert_signed: the input is drawn from a grid of angles     *)
(* that straddles every multiple of 180 deg, the function is applied, and  *)
(* then applied again to its own result.                                   *)
(***************************************************************************)
\* inputs range over -ConvMax*ConvGrain .. ConvMax*ConvGrain
ConvMax == 40
\* grid pitch of the inputs: 22.5 deg
ConvGrain == 225000
ConvInputs ==
    {g * ConvGrain + d : g \in -ConvMax..ConvMax, d \in {-1, 0, 1}}

ConvInit ==
    /\ KOff /\ AuxOff
    /\ proc = "convert_signed"
    /\ cpc = "in"
    /\ cx \in ConvInputs
    /\ cy = None /\ cz = None
    /\ StageOff /\ MoveOff /\ ProcOff

ConvApply ==
    /\ cpc = "in"
    /\ cy' = convert_signed(cx)
    /\ cpc' = "once"
    /\ UNCHANGED <<proc, kVars, auxVars, cx, cz, stageVars, moveVars, procVars>>

ConvApplyAgain ==
    /\ cpc = "once"
    /\ cz' = convert_signed(cy)
    /\ cpc' = "twice"
    /\ UNCHANGED <<proc, kVars, auxVars, cx, cy, stageVars, moveVars, procVars>>

ConvNext == ConvApply \/ ConvApplyAgain

SpecConv == ConvInit /\ [][ConvNext]_vars

\* C5: convert_signed is idempotent: applying it to its own result returns
\* that result unchanged, for every input.
C5_Idempotent == cpc = "twice" => cz = cy

\* C5 witness: an input that convert_signed changes (it wrapped), applied twice.
C5_Witness == cpc = "twice" /\ cx >= 180 * DEG /\ cy # cx /\ cy < 0

\* C6: for every device angle in the closed range [0, 360] deg the result of
\* convert_signed lies in [-180, 180] deg.
C6_SignedRange ==
    (cpc # "in" /\ cx >= 0 /\ cx <= 360 * DEG)
        => (cy >= -180 * DEG /\ cy <= 180 * DEG)

--------------------------------------------------------------------------
(***************************************************************************)
(* The stages.  move_by(offset, blocking) is a relative move.              *)
(*  - env = "ideal": the device moves as commanded, completes the move     *)
(*    before the next read and reports its position in the frame of the    *)
(*    commands.                                                            *)
(*  - env = "faulty": as ideal, but the device may stall: a move_by may    *)
(*    leave the position where it was.                                     *)
(*  - env = "free": nothing is assumed of the device: every read of        *)
(*    stage.pos returns any value of PosValues, and a non-blocking move    *)
(*    stays in progress until the device completes it (MoveCompletes).     *)
(*    A blocking move_by returns when the move is complete.                *)
(***************************************************************************)
\* the unsigned device angle in [0, 360) deg equivalent to t
Unsigned(t) == t % (360 * DEG)

\* what a free device may report while asked to reach t: t itself, the
\* value at the edge of the tolerance of np.isclose above t, a far angle
\* beyond 180 deg, and the unsigned equivalent of t
PosValues(t) ==
    {t, t + 100 + (Abs(t) \div 100000), 200 * DEG, Unsigned(t)}

\* stage.pos: a free device reports any of PosValues(t); a wrapping device
\* reports the angle it stands at as unsigned degrees in [0, 360)
ReadPos(a, t) ==
    IF env = "free" THEN PosValues(t)
    ELSE IF env = "wrap" THEN {Unsigned(pos[a])}
    ELSE {pos[a]}

\* stage.move_by(off, blocking=b) on axis a
MoveBy(a, off, b) ==
    CASE env \in {"ideal", "wrap"} ->
            /\ pos' = [pos EXCEPT ![a] = pos[a] + off]
            /\ UNCHANGED inflight
      [] env = "faulty" ->
            /\ \/ pos' = [pos EXCEPT ![a] = pos[a] + off]
               \/ pos' = pos
            /\ UNCHANGED inflight
      [] env = "free" ->
            /\ inflight' = [inflight EXCEPT ![a] = IF b THEN @ ELSE @ + 1]
            /\ UNCHANGED pos

\* the device finishes a move that was in progress
MoveCompletes ==
    /\ env = "free"
    /\ \E a \in Axes :
          /\ inflight[a] > 0
          /\ inflight' = [inflight EXCEPT ![a] = @ - 1]
    /\ UNCHANGED <<proc, kVars, auxVars, convVars, procVars, pos, env, moveVars>>

--------------------------------------------------------------------------
(***************************************************************************)
(* move_stage_to(stage, targ_pos, blocking=False, num_retries=3)           *)
(***************************************************************************)
\* `if check >= 20` in the polling loop
PollLimit == 20
\* default of num_retries
NumRetriesDefault == 3

\* lines 83-92: one pass of the for loop begins: read the position, compute
\* the offset, send move_by, reset check
MoveAttemptReuse ==
    \* mutant: a retry sends the offset of the previous attempt again
    /\ mpc = "attempt"
    /\ attempt < num_retries
    /\ \E p \in ReadPos(m_stage, targ_pos) :
          /\ init_read' = p
          /\ offset' = IF attempt > 0 THEN offset
                       ELSE targ_pos - convert_signed(p)
    /\ MoveBy(m_stage, offset', blocking)
    /\ check' = 0
    /\ nmoves' = nmoves + 1
    /\ loop_exit' = None
    /\ mpc' = "poll"
    /\ UNCHANGED <<proc, kVars, auxVars, convVars, procVars, env, m_stage, targ_pos, blocking,
                   num_retries, attempt, seen_close>>

\* a pass of the for loop that does not look at the retry budget
MoveAttemptUnbudgeted ==
    /\ mpc = "attempt"
    /\ \E p \in ReadPos(m_stage, targ_pos) :
          /\ init_read' = p
          /\ offset' = targ_pos - convert_signed(p)
    /\ MoveBy(m_stage, offset', blocking)
    /\ check' = 0
    /\ nmoves' = nmoves + 1
    /\ loop_exit' = None
    /\ mpc' = "poll"
    /\ UNCHANGED <<proc, kVars, auxVars, convVars, procVars, env, m_stage,
                   targ_pos, blocking, num_retries, attempt, seen_close>>

MoveAttempt ==
    /\ mpc = "attempt"
    /\ attempt < num_retries
    /\ \E p \in ReadPos(m_stage, targ_pos) :
          /\ init_read' = p
          /\ offset' = targ_pos - convert_signed(p)
    /\ MoveBy(m_stage, offset', blocking)
    /\ check' = 0
    /\ nmoves' = nmoves + 1
    /\ loop_exit' = None
    /\ mpc' = "poll"
    /\ UNCHANGED <<proc, kVars, auxVars, convVars, procVars, env, m_stage, targ_pos, blocking,
                   num_retries, attempt, seen_close>>

\* lines 93-100: one evaluation of the while condition and, when it holds,
\* one pass of the body (check += 1; sleep(1); break on check >= 20)
MovePoll ==
    /\ mpc = "poll"
    /\ \E p \in ReadPos(m_stage, targ_pos) :
          IF PosClose(p, targ_pos)
          THEN /\ seen_close' = TRUE
               /\ loop_exit' = "close"
               /\ mpc' = "final"
               /\ UNCHANGED check
          ELSE /\ check' = check + 1
               /\ IF check' >= PollLimit
                  THEN loop_exit' = "timeout" /\ mpc' = "final"
                  ELSE UNCHANGED <<loop_exit, mpc>>
               /\ UNCHANGED seen_close
    /\ late_polls' = IF check' = check + 1 THEN LatePoll ELSE late_polls
    /\ UNCHANGED <<proc, kVars, logVars, oscVars, convVars, procVars, stageVars, m_stage, targ_pos, blocking,
                   num_retries, attempt, init_read, offset, nmoves>>

\* lines 102-105: the position is read again; close: return, else next pass
MoveFinal ==
    /\ mpc = "final"
    /\ \E p \in ReadPos(m_stage, targ_pos) :
          IF PosClose(p, targ_pos)
          THEN /\ seen_close' = TRUE
               /\ mpc' = "returned"
               /\ UNCHANGED attempt
          ELSE /\ attempt' = attempt + 1
               /\ mpc' = "attempt"
               /\ UNCHANGED seen_close
    /\ UNCHANGED <<proc, kVars, auxVars, convVars, procVars, stageVars, m_stage, targ_pos, blocking,
                   num_retries, check, init_read, offset, nmoves, loop_exit>>

\* line 106: the for loop is exhausted: raise RuntimeError
MoveRaise ==
    /\ mpc = "attempt"
    /\ attempt >= num_retries
    /\ mpc' = "raised"
    /\ UNCHANGED <<proc, kVars, auxVars, convVars, procVars, stageVars, m_stage, targ_pos, blocking,
                   num_retries, attempt, check, init_read, offset, nmoves,
                   seen_close, loop_exit>>

\* the activation record of a call move_stage_to(a, t, blocking=b, num_retries=n)
MoveCall(a, t, b, n) ==
    /\ mpc' = "attempt"
    /\ m_stage' = a /\ targ_pos' = t /\ blocking' = b /\ num_retries' = n
    /\ attempt' = 0 /\ check' = 0 /\ init_read' = NoValue /\ offset' = NoValue
    /\ nmoves' = 0 /\ seen_close' = FALSE /\ loop_exit' = None

--------------------------------------------------------------------------
(***************************************************************************)
(* move_stage_to on its own, against a free device: the two calls of       *)
(* level_axes (roll to 45 deg, pitch to -32.7 deg), blocking or not, with  *)
(* every retry budget up to MaxRetries.                                    *)
(***************************************************************************)
MaxRetries == 3
\* the third target is one where the read-back at the edge of the tolerance
\* is a tie of the decimal numbers that the doubles break
MoveInputs == {<<"roll", 45 * DEG>>, <<"pitch", -327000>>, <<"roll", 20 * DEG>>}

MoveInit ==
    /\ KOff /\ AuxOff
    /\ proc = "move_stage_to"
    /\ ConvOff /\ ProcOff
    /\ pos = [a \in Axes |-> 0] /\ inflight = [a \in Axes |-> 0]
    /\ env \in {"free", "wrap"}
    /\ mpc = "attempt"
    /\ \E in \in MoveInputs : m_stage = in[1] /\ targ_pos = in[2]
    /\ blocking \in BOOLEAN
    /\ num_retries \in 0..MaxRetries
    /\ attempt = 0 /\ check = 0 /\ init_read = NoValue /\ offset = NoValue
    /\ nmoves = 0 /\ seen_close = FALSE /\ loop_exit = None

MoveNext ==
    \/ MoveAttempt
    \/ MovePoll
    \/ MoveFinal
    \/ MoveRaise
    \/ MoveCompletes

SpecMove == MoveInit /\ [][MoveNext]_vars

\* C1: move_stage_to returns normally if and only if the position was
\* observed within tolerance of the target by a poll or by the final read
\* inside the retry budget; in every other case it raises.
C1_ReturnsIffObserved ==
    /\ mpc = "returned" => seen_close
    /\ mpc = "raised" => ~seen_close

\* C2: in every attempt, the first and each retry, the offset sent to
\* move_by is the target minus convert_signed of the position read at the
\* start of that attempt.
C2_OffsetRecomputed ==
    nmoves > 0 => offset = targ_pos - convert_signed(init_read)

\* C2 witness: a retry has sent its move_by after reading a position for
\* which the offset is not zero.
C2_Witness ==
    /\ mpc = "poll" /\ attempt >= 1 /\ nmoves = attempt + 1
    /\ init_read >= 180 * DEG /\ offset # 0

\* C4: at most one move command is outstanding per axis at any time.
C4_OneOutstandingMove == \A a \in Axes : inflight[a] <= 1

--------------------------------------------------------------------------
(***************************************************************************)
(* PeakFinding.execute                                                     *)
(***************************************************************************)
\* self.roll_offset = 45
roll_offset == 450000
\* self.pitch_offset = -32.7
pitch_offset == -327000
\* defaults of roll_angle_init and pitch_angle_init
roll_angle_init == 0
pitch_angle_init == 0
\* rev_thresh = 4, ref_thresh = 4
rev_thresh == 4
ref_thresh == 4
\* `if step_size < 0.04`
StepFloor == 400
\* default of max_meas
MaxMeasDefault == 500
\* peak_meas = -np.inf: below every reading
NegInf == -(2 ^ 30)

AxisOffset(a) == IF a = "roll" THEN roll_offset ELSE pitch_offset
OtherAxis(a) == IF a = "roll" THEN "pitch" ELSE "roll"

\* the detector current at the logical angles (r, p): any value of MeasValues
\* for a free response, the value of the cone for a cone response
\* (11.5 nA to 11 nA is a drop of exactly the default tolerance for which
\* the doubles of line 227 see a reversal; 11.5 nA is close to 11.5001 nA
\* for np.isclose)
MeasValues == {110000, 115000, 115001}
Cone(r, p) == resp.top - resp.a * (Abs(r - resp.rs) + Abs(p - resp.ps))
Readings(r, p) == IF resp.kind = "free" THEN MeasValues ELSE {Cone(r, p)}

\* move_jog(stage, direction): one relative move of the programmed jog step;
\* direction 1 is the one the sweeps use towards smaller angles.  The stage
\* was sent the step in encoder counts (jog_step_size)
JogDelta(dir, step) ==
    IF dir = 1 THEN -jog_step_size(step) ELSE jog_step_size(step)

\* the newest reading in place of the maximum
NpLast(pk, m) == m

\* np.max([peak_meas, new_meas])
NpMax(pk, m) == IF m > pk THEN m ELSE pk

\* atol = 1e-15 A = 0.01 unit, times 1e5
MeasAtolE5 == 1000

\* lines 202-204: if np.isclose(new_meas, peak_meas, atol=1e-15, rtol=1e-5):
\*                    peak_loc = [roll_angle, pitch_angle]
PeakLoc(m, pk, loc, here) ==
    IF IsClose(m, pk, MeasAtolE5, AmpDigits) THEN here ELSE loc

\* a reversal test that ignores the tolerance
ReversalNoTol(m, prev, tol) == m < prev

\* line 227 in doubles: new_meas < (prev_meas - curr_tol*1e-9), the
\* readings in A and the tolerance in nA
RevDouble(m, prev, tol) ==
    FLess(FDec(m, AmpDigits),
          FSub(FDec(prev, AmpDigits),
               FMul(FScale(FDec(tol.n, TolDigits), tol.e), FDec(1, 9))))

\* line 227: new_meas < (prev_meas - curr_tol*1e-9).  A drop that differs
\* from the tolerance does so by far more than the doubles can err; when the
\* drop equals the tolerance the rounding of the doubles decides
\* (1.005e-08 - 0.5*1e-9 is 9.550000000000001e-09, above 9.55e-09); a
\* tolerance of 0 is subtracted exactly.  The ties that the runs meet, and
\* what the doubles make of each, are computed once
RevTies ==
    { <<110000, 115000, Dy(5000)>>,
      <<992500, 997500, Dy(5000)>>,
      <<880000, 900000, Dy(20000)>>,
      <<940000, 960000, Dy(20000)>> }
RevAtTies ==
    { [in |-> in, rev |-> RevDouble(in[1], in[2], in[3])] : in \in RevTies }

Reversal(m, prev, tol) ==
    LET t == tol.n \div (2 ^ tol.e)
        r == tol.n % (2 ^ tol.e)
        in == <<m, prev, tol>>
    IN  IF r = 0 /\ t # 0 /\ prev - m = t
        THEN IF in \in RevTies
             THEN (CHOOSE w \in RevAtTies : w.in = in).rev
             ELSE RevDouble(m, prev, tol)
        ELSE prev - m > t

\* lines 253-254: step_size / 2, curr_tol / 2
Halve(x) ==
    IF x.n % 2 = 0 THEN [x EXCEPT !.n = @ \div 2] ELSE [x EXCEPT !.e = @ + 1]

\* line 255: step_size < 0.04
BelowFloor(s) == DyBelow(s, StepFloor)

\* lines 158-164: move the roll axis to the starting angle
PeakStartRoll ==
    /\ pc = "start"
    /\ MoveCall("roll", roll_angle_init + roll_offset, TRUE, NumRetriesDefault)
    /\ pc' = "start_roll"
    /\ UNCHANGED <<proc, kVars, auxVars, convVars, sweepVars, stageVars, peakVars, devVars, histVars>>

\* lines 165-170: then the pitch axis
PeakStartPitch ==
    /\ pc = "start_roll" /\ mpc = "returned"
    /\ MoveCall("pitch", pitch_angle_init + pitch_offset, TRUE, NumRetriesDefault)
    /\ pc' = "start_pitch"
    /\ UNCHANGED <<proc, kVars, auxVars, convVars, sweepVars, stageVars, peakVars, devVars, histVars>>

\* lines 172-191: initialise the search state and take the first reading
PeakBegin ==
    /\ pc = "start_pitch" /\ mpc = "returned"
    /\ stage' = "roll"
    /\ step_size' = Dy(angle_step)
    /\ curr_tol' = Dy(threshold)
    /\ i' = 0 /\ n_reverse' = 0 /\ n_refine' = 0 /\ k' = 0
    /\ prev_meas' \in Readings(pos["roll"] - roll_offset, pos["pitch"] - pitch_offset)
    /\ jog_dir' = 1
    /\ peak_meas' = NegInf
    /\ peak_loc' = <<0, 0>>
    /\ nreads' = nreads + 1
    /\ pc' = "jog"
    /\ UNCHANGED <<proc, kVars, auxVars, convVars, sweepVars, stageVars, moveVars, angle_step, threshold,
                   max_meas, new_meas, devVars, njogs, nemits, nsetjog,
                   halvings, exit_state, passes>>

\* lines 194-195: jog the active axis; the pass then sleeps for the trigger
\* delay before it reads
PeakJog ==
    /\ pc = "jog"
    /\ pos' = [pos EXCEPT ![stage] = @ + JogDelta(jog_dir, jog_step[stage])]
    /\ njogs' = [njogs EXCEPT ![stage] = @ + 1]
    /\ pc' = "read"
    /\ UNCHANGED <<proc, kVars, auxVars, convVars, sweepVars, inflight, env,
                   moveVars, peakVars, devVars, nreads, nemits, nsetjog,
                   halvings, exit_state, passes>>

\* lines 196-233: after the sleep read the current and the angles, update
\* the peak, emit the record, reverse on a drop beyond the tolerance
PeakRead ==
    /\ pc = "read"
    /\ LET roll_angle  == pos["roll"] - roll_offset
           pitch_angle == pos["pitch"] - pitch_offset
       IN  \E m \in Readings(roll_angle, pitch_angle) :
              /\ new_meas' = m
              /\ peak_meas' = NpMax(peak_meas, m)
              /\ peak_loc' = PeakLoc(m, peak_meas', peak_loc, <<roll_angle, pitch_angle>>)
              /\ IF Reversal(m, prev_meas, curr_tol)
                 THEN /\ jog_dir' = (jog_dir % 2) + 1
                      /\ n_reverse' = n_reverse + 1
                      /\ k' = k + 1
                 ELSE UNCHANGED <<jog_dir, n_reverse, k>>
              /\ prev_meas' = m
              /\ emitted' = << [current |-> m, peak |-> peak_meas',
                                top |-> IF emitted = << >> THEN m
                                        ELSE IF m > emitted[1].top THEN m
                                        ELSE emitted[1].top,
                                first |-> emitted = << >>,
                                k |-> k'] >>
    /\ nreads' = nreads + 1
    /\ nemits' = nemits + 1
    /\ pc' = "thresh"
    /\ UNCHANGED <<proc, kVars, events, late_polls, oscVars, convVars, sweepVars, stageVars, moveVars, angle_step,
                   threshold, max_meas, stage, step_size, curr_tol, i,
                   n_refine, devVars, njogs, nsetjog, halvings, exit_state, passes>>

\* a threshold block that leaves the reversal counter as it is
PeakThreshKeep ==
    /\ pc = "thresh"
    /\ IF n_reverse >= rev_thresh
       THEN /\ MoveCall("roll", peak_loc[1] + roll_offset, TRUE, NumRetriesDefault)
            /\ pc' = "peak_roll"
       ELSE /\ pc' = "refine"
            /\ UNCHANGED moveVars
    /\ UNCHANGED <<proc, kVars, auxVars, convVars, sweepVars, stageVars,
                   angle_step, threshold, max_meas, stage, step_size,
                   curr_tol, i, n_reverse, n_refine, k, prev_meas, jog_dir,
                   peak_meas, peak_loc, new_meas, devVars, histVars>>

\* lines 237-241: at the reversal threshold reset the counter and move the
\* roll axis to the peak
PeakThresh ==
    /\ pc = "thresh"
    /\ IF n_reverse >= rev_thresh
       THEN /\ n_reverse' = 0
            /\ MoveCall("roll", peak_loc[1] + roll_offset, TRUE, NumRetriesDefault)
            /\ pc' = "peak_roll"
       ELSE /\ pc' = "refine"
            /\ UNCHANGED <<n_reverse, moveVars>>
    /\ UNCHANGED <<proc, kVars, auxVars, convVars, sweepVars, stageVars, angle_step, threshold, max_meas,
                   stage, step_size, curr_tol, i, n_refine, k, prev_meas,
                   jog_dir, peak_meas, peak_loc, new_meas, devVars, histVars>>

\* line 242: then the pitch axis
PeakMovePitch ==
    /\ pc = "peak_roll" /\ mpc = "returned"
    /\ MoveCall("pitch", peak_loc[2] + pitch_offset, TRUE, NumRetriesDefault)
    /\ pc' = "peak_pitch"
    /\ UNCHANGED <<proc, kVars, auxVars, convVars, sweepVars, stageVars, peakVars, devVars, histVars>>

\* a threshold block that counts the pass but keeps the active axis
PeakNoSwap ==
    /\ pc = "peak_pitch" /\ mpc = "returned"
    /\ n_refine' = n_refine + 1
    /\ passes' = [passes EXCEPT ![stage] = @ + 1]
    /\ pc' = "refine"
    /\ UNCHANGED <<proc, kVars, auxVars, convVars, sweepVars, stageVars, moveVars, angle_step, threshold,
                   max_meas, stage, step_size, curr_tol, i, n_reverse, k, prev_meas,
                   jog_dir, peak_meas, peak_loc, new_meas, devVars, njogs,
                   nreads, nemits, nsetjog, halvings, exit_state>>

\* a threshold block that counts every pass twice
PeakSwapDouble ==
    /\ pc = "peak_pitch" /\ mpc = "returned"
    /\ stage' = OtherAxis(stage)
    /\ n_refine' = n_refine + 2
    /\ passes' = [passes EXCEPT ![stage] = @ + 1]
    /\ pc' = "refine"
    /\ UNCHANGED <<proc, kVars, auxVars, convVars, sweepVars, stageVars, moveVars, angle_step, threshold,
                   max_meas, step_size, curr_tol, i, n_reverse, k, prev_meas,
                   jog_dir, peak_meas, peak_loc, new_meas, devVars, njogs,
                   nreads, nemits, nsetjog, halvings, exit_state>>

\* lines 243-247: swap the active axis, count the pass
PeakSwap ==
    /\ pc = "peak_pitch" /\ mpc = "returned"
    /\ stage' = OtherAxis(stage)
    /\ n_refine' = n_refine + 1
    /\ passes' = [passes EXCEPT ![stage] = @ + 1]
    /\ pc' = "refine"
    /\ UNCHANGED <<proc, kVars, auxVars, convVars, sweepVars, stageVars, moveVars, angle_step, threshold,
                   max_meas, step_size, curr_tol, i, n_reverse, k, prev_meas,
                   jog_dir, peak_meas, peak_loc, new_meas, devVars, njogs,
                   nreads, nemits, nsetjog, halvings, exit_state>>

\* a refinement block that halves the step but leaves the stages' jog step
\* as it was
PeakRefineStale ==
    /\ pc = "refine"
    /\ IF n_refine >= ref_thresh
       THEN /\ n_refine' = 0
            /\ step_size' = Halve(step_size)
            /\ curr_tol' = Halve(curr_tol)
            /\ halvings' = halvings + 1
            /\ passes' = [a \in Axes |-> 0]
            /\ IF BelowFloor(step_size')
               THEN pc' = "done" /\ exit_state' = "converged"
               ELSE pc' = "budget" /\ UNCHANGED exit_state
       ELSE /\ pc' = "budget"
            /\ UNCHANGED <<n_refine, step_size, curr_tol, halvings, exit_state, passes>>
    /\ UNCHANGED <<proc, kVars, auxVars, convVars, sweepVars, stageVars, moveVars, angle_step, threshold,
                   max_meas, stage, i, n_reverse, k, prev_meas, jog_dir,
                   peak_meas, peak_loc, new_meas, devVars, njogs,
                   nreads, nemits, nsetjog>>

\* lines 250-258: at the refinement threshold halve step and tolerance; below
\* the floor leave the loop, else reprogram the jog step of both axes
PeakRefine ==
    /\ pc = "refine"
    /\ IF n_refine >= ref_thresh
       THEN /\ n_refine' = 0
            /\ step_size' = Halve(step_size)
            /\ curr_tol' = Halve(curr_tol)
            /\ halvings' = halvings + 1
            /\ passes' = [a \in Axes |-> 0]
            /\ IF BelowFloor(step_size')
               THEN /\ pc' = "done"
                    /\ exit_state' = "converged"
                    /\ UNCHANGED <<jog_step, nsetjog>>
               ELSE /\ jog_step' = [a \in Axes |-> DyAbs(step_size')]
                    /\ nsetjog' = nsetjog + 2
                    /\ pc' = "budget"
                    /\ UNCHANGED exit_state
       ELSE /\ pc' = "budget"
            /\ UNCHANGED <<n_refine, step_size, curr_tol, halvings, jog_step,
                           nsetjog, exit_state, passes>>
    /\ UNCHANGED <<proc, kVars, auxVars, convVars, sweepVars, stageVars, moveVars, angle_step, threshold,
                   max_meas, stage, i, n_reverse, k, prev_meas, jog_dir,
                   peak_meas, peak_loc, new_meas, stop_flag, resp, njogs,
                   nreads, nemits>>

\* a budget test that lets the counter pass max_meas before leaving
PeakBudgetLate ==
    /\ pc = "budget"
    /\ i' = i + 1
    /\ IF i' > max_meas
       THEN pc' = "done" /\ exit_state' = "budget"
       ELSE pc' = "stop" /\ UNCHANGED exit_state
    /\ UNCHANGED <<proc, kVars, auxVars, convVars, sweepVars, stageVars, moveVars, angle_step, threshold,
                   max_meas, stage, step_size, curr_tol, n_reverse, n_refine,
                   k, prev_meas, jog_dir, peak_meas, peak_loc, new_meas,
                   devVars, njogs, nreads, nemits, nsetjog, halvings, passes>>

\* a budget block that looks at the stop flag first
PeakBudgetAfterStop ==
    /\ pc = "budget"
    /\ i' = i + 1
    /\ IF stop_flag
       THEN pc' = "done" /\ exit_state' = "cancelled"
       ELSE IF i' >= max_meas
            THEN pc' = "done" /\ exit_state' = "budget"
            ELSE pc' = "stop" /\ UNCHANGED exit_state
    /\ UNCHANGED <<proc, kVars, auxVars, convVars, sweepVars, stageVars,
                   moveVars, angle_step, threshold, max_meas, stage,
                   step_size, curr_tol, n_reverse, n_refine, k, prev_meas,
                   jog_dir, peak_meas, peak_loc, new_meas, devVars, njogs,
                   nreads, nemits, nsetjog, halvings, passes>>

\* lines 260-263: count the sample, leave the loop at max_meas
PeakBudget ==
    /\ pc = "budget"
    /\ i' = i + 1
    /\ IF i' >= max_meas
       THEN pc' = "done" /\ exit_state' = "budget"
       ELSE pc' = "stop" /\ UNCHANGED exit_state
    /\ UNCHANGED <<proc, kVars, auxVars, convVars, sweepVars, stageVars, moveVars, angle_step, threshold,
                   max_meas, stage, step_size, curr_tol, n_reverse, n_refine,
                   k, prev_meas, jog_dir, peak_meas, peak_loc, new_meas,
                   devVars, njogs, nreads, nemits, nsetjog, halvings, passes>>

\* lines 265-267: leave the loop when should_stop()
PeakStop ==
    /\ pc = "stop"
    /\ IF stop_flag
       THEN pc' = "done" /\ exit_state' = "cancelled"
       ELSE pc' = "jog" /\ UNCHANGED exit_state
    /\ UNCHANGED <<proc, kVars, auxVars, convVars, sweepVars, stageVars, moveVars, peakVars, devVars,
                   njogs, nreads, nemits, nsetjog, halvings, passes>>

\* a handler that caught the error of move_stage_to and went on as if the
\* call had returned
PeakSwallow ==
    /\ pc \in {"start_roll", "start_pitch", "peak_roll", "peak_pitch"}
    /\ mpc = "raised"
    /\ mpc' = "returned"
    /\ UNCHANGED <<proc, kVars, auxVars, convVars, sweepVars, stageVars, m_stage, targ_pos,
                   blocking, num_retries, attempt, check, init_read, offset,
                   nmoves, seen_close, loop_exit, pc, peakVars, devVars,
                   histVars>>

\* the RuntimeError of move_stage_to is caught nowhere in the procedure
PeakPropagate ==
    /\ pc \in {"start_roll", "start_pitch", "peak_roll", "peak_pitch"}
    /\ mpc = "raised"
    /\ pc' = "raised"
    /\ UNCHANGED <<proc, kVars, auxVars, convVars, sweepVars, stageVars, moveVars, peakVars, devVars,
                   histVars>>

\* the user asks the running procedure to stop
StopRequest ==
    /\ pc \notin {"off", "done", "raised"}
    /\ ~stop_flag
    /\ stop_flag' = TRUE
    /\ UNCHANGED <<proc, kVars, auxVars, convVars, sweepVars, stageVars, moveVars, pc, peakVars, jog_step,
                   resp, histVars>>

--------------------------------------------------------------------------
(***************************************************************************)
(* PeakFinding.execute after startup (both axes levelled, jog step         *)
(* programmed to abs(angle_step)), against                                 *)
(*  - ideal stages and a cone response with its maximum at (rs, ps), and   *)
(*  - stages that may stall and a free response, with a sample budget up   *)
(*    to MaxSamples.                                                         *)
(***************************************************************************)
MaxSamples == 6

\* the cone responses: maximum at (rs, ps), slope a per axis (a = 10 is
\* 10 nA/deg), with the step, tolerance and budget of the run
\* the iteration in which the third cone run halves its step below the floor
ConvergeAt == 73

ConeRuns ==
    { [angle_step |-> 1000, threshold |-> 5000, max_meas |-> ConvergeAt,
       rs |-> 3000, ps |-> -2000, a |-> 10],
      [angle_step |-> 8000, threshold |-> 20000, max_meas |-> MaxMeasDefault,
       rs |-> 13000, ps |-> -7000, a |-> 10],
      [angle_step |-> 8000, threshold |-> 20000, max_meas |-> MaxMeasDefault,
       rs |-> 13000, ps |-> -7000, a |-> 1],
      [angle_step |-> 1000, threshold |-> 5000, max_meas |-> MaxMeasDefault,
       rs |-> 3000, ps |-> -2000, a |-> 10],
      [angle_step |-> 1000, threshold |-> 5000, max_meas |-> MaxMeasDefault,
       rs |-> 1250, ps |-> 0, a |-> 10],
      [angle_step |-> 1000, threshold |-> 5000, max_meas |-> 24,
       rs |-> 20000, ps |-> 0, a |-> 1],
      [angle_step |-> 1750, threshold |-> 1250, max_meas |-> MaxMeasDefault,
       rs |-> 3000, ps |-> -2000, a |-> 10],
      [angle_step |-> -8000, threshold |-> 20000, max_meas |-> MaxMeasDefault,
       rs |-> 13000, ps |-> -7000, a |-> 10] }

PeakInitCommon ==
    /\ KOff /\ AuxOff
    /\ proc = "PeakFinding"
    /\ ConvOff /\ MoveOff /\ HistOff /\ SweepOff
    /\ pos = [a \in Axes |-> AxisOffset(a)]
    /\ inflight = [a \in Axes |-> 0]
    /\ jog_step = [a \in Axes |-> Dy(Abs(angle_step))]
    /\ stop_flag = FALSE
    /\ pc = "start"
    /\ stage = None /\ step_size = Dy(0) /\ curr_tol = Dy(0) /\ i = 0
    /\ n_reverse = 0
    /\ n_refine = 0 /\ k = 0 /\ prev_meas = NoValue /\ jog_dir = 1
    /\ peak_meas = NegInf /\ peak_loc = <<0, 0>> /\ new_meas = NoValue

PeakInit ==
    /\ \/ \E c \in ConeRuns :
             /\ env = "ideal"
             /\ angle_step = c.angle_step /\ threshold = c.threshold
             /\ max_meas = c.max_meas
             /\ resp = [kind |-> "cone", rs |-> c.rs, ps |-> c.ps, a |-> c.a,
                        top |-> 1000000]
       \/ /\ env = "faulty"
          /\ angle_step \in {1000, -1000, 300}
          /\ threshold \in {0, 5000}
          /\ max_meas \in 0..MaxSamples
          /\ resp = [kind |-> "free"]
    /\ PeakInitCommon

PeakNext ==
    \/ PeakStartRoll \/ PeakStartPitch \/ PeakBegin
    \/ PeakJog \/ PeakRead \/ PeakThresh \/ PeakMovePitch \/ PeakSwap
    \/ PeakRefine \/ PeakBudget \/ PeakStop
    \/ PeakPropagate \/ StopRequest
    \/ MoveAttempt \/ MovePoll \/ MoveFinal \/ MoveRaise

SpecPeak == PeakInit /\ [][PeakNext]_vars

\* the control points inside the `while True` loop
InLoop ==
    pc \in {"jog", "read", "thresh", "peak_roll", "peak_pitch", "refine",
            "budget", "stop"}

\* C7: the peak location is replaced only in an iteration whose reading is
\* strictly greater than the running peak value before that iteration.
C7_StrictPeakOnly ==
    [][(pc = "read" /\ peak_loc' # peak_loc) => new_meas' > peak_meas]_vars

\* C8: inside the loop the step size never increases, a refinement that
\* brings it below the floor leaves the loop as converged in that very step,
\* and after the loop is left no jog is sent.  (Line 253 halves the signed
\* step: a negative initial step rises towards 0.)
C8_StepMonotone ==
    [][/\ InLoop => DyLeq(step_size', step_size)
       /\ (InLoop /\ step_size' # step_size /\ BelowFloor(step_size'))
             => (pc' = "done" /\ exit_state' = "converged")
       /\ pc = "done" => njogs' = njogs]_vars

\* C9: with a unimodal response and stages that move as commanded, the
\* search ends converged, before the budget is exhausted, with the peak
\* location within the step floor of the maximum in both coordinates.
C9_ConvergesOnUnimodal ==
    (pc = "done" /\ resp.kind = "cone" /\ env = "ideal" /\ exit_state # "cancelled")
        => /\ exit_state = "converged"
           /\ Abs(peak_loc[1] - resp.rs) <= StepFloor
           /\ Abs(peak_loc[2] - resp.ps) <= StepFloor

\* the end-to-end scenario: initial step 0.8 deg, tolerance 2.0 nA
Scenario == angle_step = 8000 /\ threshold = 20000

\* C10: in the scenario the search halves the step exactly 3 times (0.8,
\* 0.4, 0.2, 0.1) and then terminates converged.  (The floor of line 255 is
\* the literal 0.04: the scenario's run converges at its fifth halving, with
\* a step of 0.025 deg.)
C10_ThreeHalvings ==
    (Scenario /\ pc = "done" /\ exit_state = "converged")
        => (halvings = 3 /\ step_size = Dy(1000))

--------------------------------------------------------------------------
(***************************************************************************)
(* level_axes  (src/procedures.py, lines 108-132)                          *)
(***************************************************************************)
\* every peak-search variable except the counter k, which the sweeps share
peakRest == <<angle_step, threshold, max_meas, stage, step_size, curr_tol, i,
              n_reverse, n_refine, prev_meas, jog_dir, peak_meas, peak_loc,
              new_meas>>

\* line 121: the loop condition reads the roll axis's flag in both operands
HomingPending == ~homed["roll"] \/ ~homed["roll"]

\* move_home(blocking=True) on axis a has returned: an ideal device is
\* homed by then, any other may still be homing
MoveHome(a) ==
    \E h \in BOOLEAN :
        /\ env = "ideal" => h
        /\ homed' = [homed EXCEPT ![a] = h]
        /\ pos' = [pos EXCEPT ![a] = IF h THEN 0 ELSE @]

\* lines 115-117: set the home directions and home the roll axis; the call
\* blocks until the roll axis is done
LevelHome ==
    /\ pc = "l_home"
    /\ MoveHome("roll")
    /\ pc' = "l_home_pitch"
    /\ UNCHANGED <<proc, kVars, auxVars, convVars, inflight, env, moveVars, peakVars, devVars,
                   histVars, par, sweep_roll, sweep_pitch, n_steps_roll,
                   n_steps_pitch, roll_dir, pitch_dir, oi, oj, pcheck>>

\* lines 118-120: home the pitch axis, then enter the homing loop
LevelHomePitch ==
    /\ pc = "l_home_pitch"
    /\ MoveHome("pitch")
    /\ pcheck' = 0
    /\ pc' = "l_poll"
    /\ UNCHANGED <<proc, kVars, auxVars, convVars, inflight, env, moveVars, peakVars, devVars,
                   histVars, par, sweep_roll, sweep_pitch, n_steps_roll,
                   n_steps_pitch, roll_dir, pitch_dir, oi, oj>>

\* the device finishes homing an axis that was sent home
HomeCompletes ==
    /\ pc \in {"l_home_pitch", "l_poll"}
    /\ env # "ideal"
    /\ \E a \in Axes :
          /\ pc = "l_home_pitch" => a = "roll"
          /\ ~homed[a]
          /\ homed' = [homed EXCEPT ![a] = TRUE]
          /\ pos' = [pos EXCEPT ![a] = 0]
    /\ UNCHANGED <<proc, kVars, auxVars, convVars, inflight, env, moveVars, pc, peakVars,
                   devVars, histVars, par, sweep_roll, sweep_pitch,
                   n_steps_roll, n_steps_pitch, roll_dir, pitch_dir, oi, oj,
                   pcheck>>

\* a homing loop whose timeout is an error
LevelPollFatal ==
    /\ pc = "l_poll"
    /\ IF HomingPending
       THEN /\ pcheck' = pcheck + 1
            /\ pc' = IF pcheck + 1 >= PollLimit THEN "raised" ELSE "l_poll"
       ELSE /\ pc' = "l_level"
            /\ UNCHANGED pcheck
    /\ late_polls' = IF pcheck' = pcheck + 1 THEN LatePoll ELSE late_polls
    /\ UNCHANGED <<proc, kVars, logVars, oscVars, convVars, stageVars, moveVars, peakVars, devVars,
                   histVars, par, sweep_roll, sweep_pitch, n_steps_roll,
                   n_steps_pitch, roll_dir, pitch_dir, oi, oj, homed>>

\* lines 121-128: one evaluation of the homing loop
LevelPoll ==
    /\ pc = "l_poll"
    /\ IF HomingPending
       THEN /\ pcheck' = pcheck + 1
            /\ pc' = IF pcheck + 1 >= PollLimit THEN "l_level" ELSE "l_poll"
       ELSE /\ pc' = "l_level"
            /\ UNCHANGED pcheck
    /\ late_polls' = IF pcheck' = pcheck + 1 THEN LatePoll ELSE late_polls
    /\ UNCHANGED <<proc, kVars, logVars, oscVars, convVars, stageVars, moveVars, peakVars, devVars,
                   histVars, par, sweep_roll, sweep_pitch, n_steps_roll,
                   n_steps_pitch, roll_dir, pitch_dir, oi, oj, homed>>

\* line 131
LevelRoll ==
    /\ pc = "l_level"
    /\ MoveCall("roll", roll_offset, TRUE, NumRetriesDefault)
    /\ pc' = "l_roll"
    /\ UNCHANGED <<proc, kVars, auxVars, convVars, stageVars, peakVars, devVars, histVars,
                   sweepVars>>

\* line 132
LevelPitch ==
    /\ pc = "l_roll"
    /\ mpc = "returned"
    /\ MoveCall("pitch", pitch_offset, TRUE, NumRetriesDefault)
    /\ pc' = "l_pitch"
    /\ UNCHANGED <<proc, kVars, auxVars, convVars, stageVars, peakVars, devVars, histVars,
                   sweepVars>>

\* the end of the function body
LevelReturn ==
    /\ pc = "l_pitch"
    /\ mpc = "returned"
    /\ pc' = "done"
    /\ UNCHANGED <<proc, kVars, auxVars, convVars, stageVars, moveVars, peakVars, devVars,
                   histVars, sweepVars>>

\* lines 131-132 are not inside any try block
LevelPropagate ==
    /\ pc \in {"l_roll", "l_pitch"}
    /\ mpc = "raised"
    /\ pc' = "raised"
    /\ UNCHANGED <<proc, kVars, auxVars, convVars, stageVars, moveVars, peakVars, devVars,
                   histVars, sweepVars>>

\* positions the axes may be at when level_axes is called
LevelStarts == {[a \in Axes |-> 0], [a \in Axes |-> AxisOffset(a)]}

LevelInit ==
    /\ KOff /\ AuxOff
    /\ proc = "level_axes"
    /\ ConvOff /\ MoveOff /\ PeakOff /\ HistOff /\ SweepOff
    /\ pos \in LevelStarts
    /\ inflight = [a \in Axes |-> 0]
    /\ env \in {"ideal", "faulty", "free"}
    /\ jog_step = [a \in Axes |-> Dy(0)] /\ stop_flag = FALSE /\ resp = None
    /\ pc = "l_home"

LevelNext ==
    \/ LevelHome \/ LevelHomePitch \/ HomeCompletes \/ LevelPoll
    \/ LevelRoll \/ LevelPitch \/ LevelReturn \/ LevelPropagate
    \/ MoveAttempt \/ MovePoll \/ MoveFinal \/ MoveRaise


--------------------------------------------------------------------------
(***************************************************************************)
(* AngleSweep.execute  (src/procedures.py, lines 267-393)                  *)
(*                                                                         *)
(* The step counts are computed in double precision by the code: the      *)
(* quotient |stop - start| / |step| may fall just below the whole number   *)
(* that the quotient of the decimal numbers is (abs(0.3 - 0) / abs(0.1) is *)
(* 2.9999999999999996).                                                    *)
(***************************************************************************)
\* a count that leaves out the last point
NStepsOpen(start, stop, step) == Abs(stop - start) \div Abs(step)

\* lines 294-298 and 328-332: int(|stop - start| / |step| + 1) for a step
\* other than 0, in doubles
NSteps(start, stop, step) ==
    FInt(FAdd(FDiv(FAbs(FSub(FDec(stop, DegDigits), FDec(start, DegDigits))),
                   FAbs(FDec(step, DegDigits))),
              FDec(1, 0)))

\* lines 299 and 333-335
SweepDir(start, stop) == IF stop < start THEN 1 ELSE 2

\* move_jog (lines 45-50) on axis a in direction dir
Jog(a, dir) ==
    /\ pos' = [pos EXCEPT ![a] = @ + JogDelta(dir, jog_step[a])]
    /\ njogs' = [njogs EXCEPT ![a] = @ + 1]

\* lines 269-280 and 300-301
SweepRollStart ==
    /\ pc = "a_start"
    /\ IF sweep_roll
       THEN /\ MoveCall("roll", par.roll_start + roll_offset, TRUE,
                        NumRetriesDefault)
            /\ pc' = "a_roll"
            /\ UNCHANGED n_steps_roll
       ELSE /\ n_steps_roll' = 1
            /\ pc' = "a_pitch"
            /\ UNCHANGED moveVars
    /\ pcheck' = 0
    /\ UNCHANGED <<proc, kVars, auxVars, convVars, stageVars, peakVars, devVars, histVars,
                   par, sweep_roll, sweep_pitch, n_steps_pitch, roll_dir,
                   pitch_dir, oi, oj, homed>>

\* lines 281-299: one evaluation of the wait for the roll start position,
\* then the step count and the direction
SweepRollPoll ==
    /\ pc = "a_roll"
    /\ mpc = "returned"
    /\ \E p \in ReadPos("roll", par.roll_start + roll_offset) :
          /\ IF ~PosClose(p, par.roll_start + roll_offset)
                /\ pcheck + 1 < PollLimit
             THEN /\ pcheck' = pcheck + 1
                  /\ UNCHANGED <<pc, n_steps_roll, roll_dir>>
             ELSE /\ n_steps_roll' = NSteps(par.roll_start, par.roll_stop,
                                            par.roll_step)
                  /\ roll_dir' = SweepDir(par.roll_start, par.roll_stop)
                  /\ pcheck' = 0
                  /\ pc' = "a_pitch"
          /\ late_polls' = IF ~PosClose(p, par.roll_start + roll_offset)
                           THEN LatePoll ELSE late_polls
    /\ UNCHANGED <<proc, kVars, logVars, oscVars, convVars, stageVars, moveVars, peakVars, devVars,
                   histVars, par, sweep_roll, sweep_pitch, n_steps_pitch,
                   pitch_dir, oi, oj, homed>>

\* lines 303-314 and 336-340
SweepPitchStart ==
    /\ pc = "a_pitch"
    /\ IF sweep_pitch
       THEN /\ MoveCall("pitch", par.pitch_start + pitch_offset, TRUE,
                        NumRetriesDefault)
            /\ pc' = "a_pitch_wait"
            /\ UNCHANGED <<n_steps_pitch, oi, k>>
       ELSE /\ n_steps_pitch' = 1
            /\ oi' = 0 /\ k' = 0
            /\ pc' = "a_outer"
            /\ UNCHANGED moveVars
    /\ pcheck' = 0
    /\ UNCHANGED <<proc, kVars, auxVars, convVars, stageVars, peakRest, devVars, histVars,
                   par, sweep_roll, sweep_pitch, n_steps_roll, roll_dir,
                   pitch_dir, oj, homed>>

\* lines 315-340
SweepPitchPoll ==
    /\ pc = "a_pitch_wait"
    /\ mpc = "returned"
    /\ \E p \in ReadPos("pitch", par.pitch_start + pitch_offset) :
          /\ IF ~PosClose(p, par.pitch_start + pitch_offset)
                /\ pcheck + 1 < PollLimit
             THEN /\ pcheck' = pcheck + 1
                  /\ UNCHANGED <<pc, n_steps_pitch, pitch_dir, oi, k>>
             ELSE /\ n_steps_pitch' = NSteps(par.pitch_start, par.pitch_stop,
                                             par.pitch_step)
                  /\ pitch_dir' = SweepDir(par.pitch_start, par.pitch_stop)
                  /\ pcheck' = 0
                  /\ oi' = 0 /\ k' = 0
                  /\ pc' = "a_outer"
          /\ late_polls' = IF ~PosClose(p, par.pitch_start + pitch_offset)
                           THEN LatePoll ELSE late_polls
    /\ UNCHANGED <<proc, kVars, logVars, oscVars, convVars, stageVars, moveVars, peakRest, devVars,
                   histVars, par, sweep_roll, sweep_pitch, n_steps_roll,
                   roll_dir, oj, homed>>

\* lines 343-346: the head of the pitch loop
SweepOuter ==
    /\ pc = "a_outer"
    /\ IF oi < n_steps_pitch
       THEN /\ IF sweep_pitch /\ oi # 0
               THEN Jog("pitch", pitch_dir)
               ELSE UNCHANGED <<pos, njogs, passes>>
            /\ oj' = 0
            /\ pc' = "a_inner"
       ELSE /\ pc' = "done"
            /\ UNCHANGED <<pos, njogs, oj, passes>>
    /\ UNCHANGED <<proc, kVars, auxVars, convVars, inflight, env, moveVars, peakVars, devVars,
                   nreads, nemits, nsetjog, halvings, exit_state, par,
                   sweep_roll, sweep_pitch, n_steps_roll, n_steps_pitch,
                   roll_dir, pitch_dir, oi, pcheck, homed, passes>>

\* lines 346-362: one pass of the roll loop
SweepInner ==
    /\ pc = "a_inner"
    /\ IF oj < n_steps_roll
       THEN /\ IF sweep_roll /\ oj # 0
               THEN Jog("roll", roll_dir)
               ELSE UNCHANGED <<pos, njogs, passes>>
            /\ nreads' = nreads + 1
            /\ nemits' = nemits + 1
            /\ emitted' = Append(emitted,
                  [row |-> oi, col |-> oj, read |-> nreads + 1,
                   roll |-> pos'["roll"] - roll_offset,
                   pitch |-> pos'["pitch"] - pitch_offset])
            /\ k' = k + 1
            /\ IF stop_flag
               THEN pc' = "a_reset" /\ UNCHANGED oj
               ELSE pc' = "a_inner" /\ oj' = oj + 1
       ELSE /\ pc' = "a_reset"
            /\ UNCHANGED <<pos, njogs, nreads, nemits, k, oj, passes,
                           emitted>>
    /\ UNCHANGED <<proc, kVars, events, late_polls, oscVars, convVars, inflight, env, moveVars, peakRest, devVars,
                   nsetjog, halvings, exit_state, par, sweep_roll,
                   sweep_pitch, n_steps_roll, n_steps_pitch, roll_dir,
                   pitch_dir, oi, pcheck, homed, passes>>

\* lines 365-375: with both axes swept, the roll axis goes back to its start
SweepReset ==
    /\ pc = "a_reset"
    /\ IF sweep_roll /\ sweep_pitch
       THEN /\ MoveCall("roll", par.roll_start + roll_offset, TRUE,
                        NumRetriesDefault)
            /\ pc' = "a_reset_wait"
       ELSE /\ pc' = "a_stop"
            /\ UNCHANGED moveVars
    /\ pcheck' = 0
    /\ UNCHANGED <<proc, kVars, auxVars, convVars, stageVars, peakVars, devVars, histVars,
                   par, sweep_roll, sweep_pitch, n_steps_roll, n_steps_pitch,
                   roll_dir, pitch_dir, oi, oj, homed>>

\* lines 376-388
SweepResetPoll ==
    /\ pc = "a_reset_wait"
    /\ mpc = "returned"
    /\ \E p \in ReadPos("roll", par.roll_start + roll_offset) :
          /\ IF ~PosClose(p, par.roll_start + roll_offset)
                /\ pcheck + 1 < PollLimit
             THEN pcheck' = pcheck + 1 /\ UNCHANGED pc
             ELSE pcheck' = 0 /\ pc' = "a_stop"
          /\ late_polls' = IF ~PosClose(p, par.roll_start + roll_offset)
                           THEN LatePoll ELSE late_polls
    /\ UNCHANGED <<proc, kVars, logVars, oscVars, convVars, stageVars, moveVars, peakVars, devVars,
                   histVars, par, sweep_roll, sweep_pitch, n_steps_roll,
                   n_steps_pitch, roll_dir, pitch_dir, oi, oj, homed>>

\* lines 389-391 and the step of the pitch loop
SweepStop ==
    /\ pc = "a_stop"
    /\ IF stop_flag
       THEN pc' = "done" /\ UNCHANGED oi
       ELSE pc' = "a_outer" /\ oi' = oi + 1
    /\ UNCHANGED <<proc, kVars, auxVars, convVars, stageVars, moveVars, peakVars, devVars,
                   histVars, par, sweep_roll, sweep_pitch, n_steps_roll,
                   n_steps_pitch, roll_dir, pitch_dir, oj, pcheck, homed>>

\* none of the three calls of move_stage_to is inside a try block
SweepPropagate ==
    /\ pc \in {"a_roll", "a_pitch_wait", "a_reset_wait"}
    /\ mpc = "raised"
    /\ pc' = "raised"
    /\ UNCHANGED <<proc, kVars, auxVars, convVars, stageVars, moveVars, peakVars, devVars,
                   histVars, sweepVars>>

\* sweep parameters, in units of 1e-4 deg
SweepRuns ==
    { [roll_start |-> 0, roll_stop |-> 10000, roll_step |-> 5000,
       pitch_start |-> 5000, pitch_stop |-> 0, pitch_step |-> 5000],
      [roll_start |-> 10000, roll_stop |-> 0, roll_step |-> 10000,
       pitch_start |-> 0, pitch_stop |-> 0, pitch_step |-> 5000],
      [roll_start |-> 0, roll_stop |-> 3000, roll_step |-> 1000,
       pitch_start |-> 0, pitch_stop |-> 0, pitch_step |-> 5000] }

\* the state after AngleSweep.startup (lines 229-265): axes levelled, the
\* jog steps programmed to the absolute angle steps
SweepInit ==
    /\ KOff /\ AuxOff
    /\ proc = "AngleSweep"
    /\ ConvOff /\ MoveOff /\ PeakOff /\ HistOff
    /\ par \in SweepRuns
    /\ sweep_roll \in BOOLEAN /\ sweep_pitch \in BOOLEAN
    /\ n_steps_roll = 0 /\ n_steps_pitch = 0 /\ roll_dir = 0
    /\ pitch_dir = 0 /\ oi = 0 /\ oj = 0 /\ pcheck = 0
    /\ homed = [a \in Axes |-> TRUE]
    /\ pos = [a \in Axes |-> AxisOffset(a)]
    /\ inflight = [a \in Axes |-> 0]
    /\ env \in {"ideal", "faulty"}
    /\ jog_step = [a \in Axes |-> IF a = "roll" THEN Dy(Abs(par.roll_step))
                                  ELSE Dy(Abs(par.pitch_step))]
    /\ stop_flag = FALSE /\ resp = None
    /\ pc = "a_start"

SweepNext ==
    \/ SweepRollStart \/ SweepRollPoll \/ SweepPitchStart \/ SweepPitchPoll
    \/ SweepOuter \/ SweepInner \/ SweepReset \/ SweepResetPoll \/ SweepStop
    \/ SweepPropagate \/ StopRequest
    \/ MoveAttempt \/ MovePoll \/ MoveFinal \/ MoveRaise


--------------------------------------------------------------------------
(***************************************************************************)
(* VelocityAngleSweep  (src/procedure_velocity.py)                         *)
(*                                                                         *)
(* The module imports logging, E364A, Keithley6487, numpy, List, sleep,    *)
(* VISAAdapter, Procedure, the parameter classes, MotorCtrl, find_stages   *)
(* and two message classes (lines 1-18) and defines the class and nothing  *)
(* else.  The names set_jog_step, move_stage_to and move_jog, which        *)
(* startup and execute call, are bound nowhere in it (the peak search      *)
(* imports them from procedures at its line 20).  A call of an unbound     *)
(* global raises NameError when the name is looked up, before any argument *)
(* is evaluated, so no command reaches a stage.  The statements after      *)
(* these calls run only in a namespace that binds the three names; the     *)
(* actions below give both cases.                                          *)
(***************************************************************************)
\* the namespace in which the procedure runs: the module by itself, or the
\* module with the three names bound to the functions of src/procedures.py,
\* as `from procedures import set_jog_step, move_stage_to, move_jog` binds
\* them for the peak search
HelpersBound == proc = "VelocityAngleSweep, helpers bound"
InVel == proc = "VelocityAngleSweep" \/ HelpersBound

\* the procedure is left by a NameError
VelNameError ==
    /\ pc' = "raised"
    /\ exit_state' = "NameError"

\* jog step an axis holds from earlier use of the device
PriorRollJog == 5000

\* lines 147-159 of startup: the first call of set_jog_step (line 151)
\* raises NameError; neither stage is sent jog parameters and the rest of
\* startup (the second call, homing, levelling: lines 159-195) is not run
VelSetJog ==
    /\ pc = "v_setjog"
    /\ VelNameError
    /\ UNCHANGED <<proc, kVars, auxVars, convVars, stageVars, moveVars,
                   peakVars, devVars, njogs, nreads, nemits, nsetjog,
                   halvings, passes, sweepVars>>

\* lines 199-210 and 226-227 of execute: with sweep_roll the call of
\* move_stage_to (line 206), which raises NameError when the name is
\* unbound; without it n_steps_roll = 1 and roll_dir stays unbound
VelRollStart ==
    /\ pc = "v_start"
    /\ IF sweep_roll
       THEN IF HelpersBound
            THEN /\ MoveCall("roll", par.roll_start + roll_offset, TRUE,
                             NumRetriesDefault)
                 /\ pc' = "v_roll"
                 /\ UNCHANGED <<n_steps_roll, exit_state>>
            ELSE /\ VelNameError
                 /\ UNCHANGED <<n_steps_roll, moveVars>>
       ELSE /\ n_steps_roll' = 1
            /\ pc' = "v_pitch"
            /\ UNCHANGED <<exit_state, moveVars>>
    /\ UNCHANGED <<proc, kVars, auxVars, convVars, stageVars,
                   peakVars, devVars, njogs, nreads, nemits, nsetjog,
                   halvings, passes, par, sweep_roll, sweep_pitch,
                   n_steps_pitch, roll_dir, pitch_dir, oi, oj, pcheck, homed>>

\* lines 210-225: one evaluation of the wait for the roll start position,
\* then the step count and the direction
VelRollPoll ==
    /\ pc = "v_roll"
    /\ mpc = "returned"
    /\ \E p \in ReadPos("roll", par.roll_start + roll_offset) :
          /\ IF ~PosClose(p, par.roll_start + roll_offset)
                /\ pcheck + 1 < PollLimit
             THEN /\ pcheck' = pcheck + 1
                  /\ UNCHANGED <<pc, n_steps_roll, roll_dir>>
             ELSE /\ n_steps_roll' = 1
                  /\ roll_dir' = SweepDir(par.roll_start, par.roll_stop)
                  /\ pcheck' = 0
                  /\ pc' = "v_pitch"
          /\ late_polls' = IF ~PosClose(p, par.roll_start + roll_offset)
                           THEN LatePoll ELSE late_polls
    /\ UNCHANGED <<proc, kVars, logVars, oscVars, convVars, stageVars,
                   moveVars, peakVars, devVars, histVars, par, sweep_roll,
                   sweep_pitch, n_steps_pitch, pitch_dir, oi, oj, homed>>

\* lines 229-240 and 262-266 of execute: with sweep_pitch the call of
\* move_stage_to (line 236), which raises NameError when the name is
\* unbound; without it n_steps_pitch = 1 and pitch_dir stays unbound, and
\* the loop counters are set
VelPitchStart ==
    /\ pc = "v_pitch"
    /\ IF sweep_pitch
       THEN IF HelpersBound
            THEN /\ MoveCall("pitch", par.pitch_start + pitch_offset, TRUE,
                             NumRetriesDefault)
                 /\ pc' = "v_pitch_wait"
                 /\ UNCHANGED <<n_steps_pitch, oi, k, exit_state>>
            ELSE /\ VelNameError
                 /\ UNCHANGED <<n_steps_pitch, oi, k, moveVars>>
       ELSE /\ n_steps_pitch' = 1
            /\ oi' = 0 /\ k' = 0
            /\ pc' = "v_outer"
            /\ UNCHANGED <<exit_state, moveVars>>
    /\ UNCHANGED <<proc, kVars, auxVars, convVars, stageVars,
                   peakRest, devVars, njogs, nreads, nemits, nsetjog,
                   halvings, passes, par, sweep_roll, sweep_pitch,
                   n_steps_roll, roll_dir, pitch_dir, oj, pcheck, homed>>

\* lines 240-266: one evaluation of the wait for the pitch start position,
\* then the step count, the direction and the loop counters
VelPitchPoll ==
    /\ pc = "v_pitch_wait"
    /\ mpc = "returned"
    /\ \E p \in ReadPos("pitch", par.pitch_start + pitch_offset) :
          /\ IF ~PosClose(p, par.pitch_start + pitch_offset)
                /\ pcheck + 1 < PollLimit
             THEN /\ pcheck' = pcheck + 1
                  /\ UNCHANGED <<pc, n_steps_pitch, pitch_dir, oi, k>>
             ELSE /\ n_steps_pitch' = NSteps(par.pitch_start, par.pitch_stop,
                                             par.pitch_step)
                  /\ pitch_dir' = SweepDir(par.pitch_start, par.pitch_stop)
                  /\ pcheck' = 0
                  /\ oi' = 0 /\ k' = 0
                  /\ pc' = "v_outer"
          /\ late_polls' = IF ~PosClose(p, par.pitch_start + pitch_offset)
                           THEN LatePoll ELSE late_polls
    /\ UNCHANGED <<proc, kVars, logVars, oscVars, convVars, stageVars,
                   moveVars, peakRest, devVars, histVars, par, sweep_roll,
                   sweep_pitch, n_steps_roll, roll_dir, oj, homed>>

\* an entry of the log of a ramp: a command with the numbers that go with it
Ev(c, a) == [cmd |-> c, arg |-> a]

\* lines 269-279 of execute, the head of a pass of the loop: the call of
\* move_jog (line 274) raises NameError when the name is unbound, before
\* roll_dir is read, and UnboundLocalError when roll_dir is (sweep_roll
\* off); else the roll axis is jogged, INIT is written (line 277) and the
\* wait begins, the log and the records being those of the ramp that
\* starts.  After the last pass the procedure ends.
VelRamp ==
    /\ pc = "v_outer"
    /\ IF oi < n_steps_pitch
       THEN IF ~HelpersBound
            THEN /\ VelNameError
                 /\ UNCHANGED <<pos, njogs, pcheck, logVars>>
            ELSE IF roll_dir = 0
            THEN /\ pc' = "raised"
                 /\ exit_state' = "UnboundLocalError"
                 /\ UNCHANGED <<pos, njogs, pcheck, logVars>>
            ELSE /\ Jog("roll", roll_dir)
                 /\ events' = <<Ev("jog", <<roll_dir>>), Ev("INIT", <<>>)>>
                 /\ emitted' = << >>
                 /\ pcheck' = 0
                 /\ pc' = "v_ramp"
                 /\ UNCHANGED exit_state
       ELSE /\ pc' = "done"
            /\ UNCHANGED <<pos, njogs, pcheck, exit_state, logVars>>
    /\ UNCHANGED <<proc, kVars, late_polls, oscVars, convVars,
                   inflight, env, moveVars, peakVars, devVars, nreads,
                   nemits, nsetjog, halvings, passes, par, sweep_roll,
                   sweep_pitch, n_steps_roll, n_steps_pitch, roll_dir,
                   pitch_dir, oi, oj, homed>>

\* line 288: passes of the ramp wait
RampLimit == 300

\* lines 279-292: one evaluation of the ramp wait (a sleep of 0.1 s follows
\* when the stop position is not reached).  When the wait ends the log gets
\* the number of sleeps made and whether the position was reached.
VelRampPoll ==
    /\ pc = "v_ramp"
    /\ \E p \in ReadPos("roll", par.roll_stop + roll_offset) :
          LET reached == PosClose(p, par.roll_stop + roll_offset) IN
          /\ IF ~reached /\ pcheck + 1 < RampLimit
             THEN pcheck' = pcheck + 1 /\ UNCHANGED <<pc, events>>
             ELSE /\ pcheck' = 0 /\ pc' = "v_drain"
                  /\ events' = Append(events,
                        Ev("wait", <<IF reached THEN pcheck ELSE pcheck + 1,
                                     IF reached THEN 1 ELSE 0>>))
          /\ late_polls' = IF ~reached THEN LatePoll ELSE late_polls
    /\ UNCHANGED <<proc, kVars, emitted, oscVars, convVars, stageVars,
                   moveVars, peakVars, devVars, histVars, par, sweep_roll,
                   sweep_pitch, n_steps_roll, n_steps_pitch, roll_dir,
                   pitch_dir, oi, oj, homed>>

\* largest sample count the picoammeter reports for one ramp
MaxBuf == 3
\* the first column of the drained trace: one current per buffered sample
TraceValues == {10000, 20000}

\* np.linspace(start, stop, n) without the end point
LinspaceOpen(start, stop, n) ==
    LET step == FDiv(FSub(stop, start), FDec(n, 0))
    IN  [s \in 1..n |-> FAdd(FMul(FDec(s - 1, 0), step), start)]

(***************************************************************************)
(* np.linspace(start, stop, n), line 304, on doubles: with delta = stop -  *)
(* start and step = delta / (n - 1) the values are arange(n) * step +      *)
(* start, each product and each sum rounded, and the last one is then set  *)
(* to stop; for n = 1 there is no step and the single value is 0 * delta + *)
(* start, and for n = 0 there is none.                                     *)
(***************************************************************************)
Linspace(start, stop, n) ==
    LET delta == FSub(stop, start)
        step == FDiv(delta, FDec(n - 1, 0))
    IN  [s \in 1..n |->
            IF n = 1 THEN FAdd(FMul(FDec(0, 0), delta), start)
            ELSE IF s = n THEN stop
            ELSE FAdd(FMul(FDec(s - 1, 0), step), start)]

\* lines 308-318: one record per sample, the s-th with the s-th angle and
\* the first column of the s-th row of the trace
TraceRecords(angles, data, pitch) ==
    [s \in 1..Len(data) |->
        [sample |-> s, roll |-> angles[s], pitch |-> pitch,
         current |-> data[s]]]

\* lines 295-330 with the sample count read before the abort
VelDrainCountFirst ==
    /\ pc = "v_drain"
    /\ \E n_samples \in 0..MaxBuf :
       \E data \in [1..n_samples -> TraceValues] :
          /\ nreads' = nreads + 1
          /\ nemits' = nemits + n_samples
          /\ events' = events \o <<Ev("count", <<n_samples>>),
                                   Ev("ABOR", <<>>), Ev("drain", data)>>
          /\ emitted' = TraceRecords(
                 Linspace(FDec(par.roll_start, DegDigits),
                          FDec(par.roll_stop, DegDigits), n_samples),
                 data, pos["pitch"] - pitch_offset)
    /\ MoveCall("roll", par.roll_start + roll_offset, TRUE, NumRetriesDefault)
    /\ pc' = "v_back"
    /\ UNCHANGED <<proc, kVars, late_polls, oscVars, convVars, stageVars,
                   peakVars, devVars, njogs, nsetjog, halvings, exit_state,
                   passes, sweepVars>>

\* lines 294-330: ABOR is written, the sample count n is asked for
\* (buffer_size) and the trace drained (:TRAC:DATA?), a trace of n rows as
\* reshape((n_samples, 4)) takes; the roll angles are reconstructed and one
\* record per sample is emitted; then the roll axis is sent back to its
\* start (set_vel_params, move_stage_to)
VelDrain ==
    /\ pc = "v_drain"
    /\ \E n_samples \in 0..MaxBuf :
       \E data \in [1..n_samples -> TraceValues] :
          /\ nreads' = nreads + 1
          /\ nemits' = nemits + n_samples
          /\ events' = events \o <<Ev("ABOR", <<>>),
                                   Ev("count", <<n_samples>>),
                                   Ev("drain", data)>>
          /\ emitted' = TraceRecords(
                 Linspace(FDec(par.roll_start, DegDigits),
                          FDec(par.roll_stop, DegDigits), n_samples),
                 data, pos["pitch"] - pitch_offset)
    /\ MoveCall("roll", par.roll_start + roll_offset, TRUE, NumRetriesDefault)
    /\ pc' = "v_back"
    /\ UNCHANGED <<proc, kVars, late_polls, oscVars, convVars, stageVars,
                   peakVars, devVars, njogs, nsetjog, halvings, exit_state,
                   passes, sweepVars>>

\* lines 331-344: one evaluation of the wait for the roll start position
VelBackPoll ==
    /\ pc = "v_back"
    /\ mpc = "returned"
    /\ \E p \in ReadPos("roll", par.roll_start + roll_offset) :
          /\ IF ~PosClose(p, par.roll_start + roll_offset)
                /\ pcheck + 1 < PollLimit
             THEN pcheck' = pcheck + 1 /\ UNCHANGED pc
             ELSE pcheck' = 0 /\ pc' = "v_step"
          /\ late_polls' = IF ~PosClose(p, par.roll_start + roll_offset)
                           THEN LatePoll ELSE late_polls
    /\ UNCHANGED <<proc, kVars, logVars, oscVars, convVars, stageVars,
                   moveVars, peakVars, devVars, histVars, par, sweep_roll,
                   sweep_pitch, n_steps_roll, n_steps_pitch, roll_dir,
                   pitch_dir, oi, oj, homed>>

\* lines 346-351: the pitch axis is jogged in every pass, the last one
\* included, then the stop flag is looked at; pitch_dir is bound only when
\* the pitch axis is swept
VelStep ==
    /\ pc = "v_step"
    /\ IF pitch_dir = 0
       THEN /\ pc' = "raised"
            /\ exit_state' = "UnboundLocalError"
            /\ UNCHANGED <<pos, njogs, oi>>
       ELSE /\ Jog("pitch", pitch_dir)
            /\ IF stop_flag
               THEN pc' = "done" /\ UNCHANGED oi
               ELSE pc' = "v_outer" /\ oi' = oi + 1
            /\ UNCHANGED exit_state
    /\ UNCHANGED <<proc, kVars, auxVars, convVars, inflight, env, moveVars,
                   peakVars, devVars, nreads, nemits, nsetjog, halvings,
                   passes, par, sweep_roll, sweep_pitch, n_steps_roll,
                   n_steps_pitch, roll_dir, pitch_dir, oj, pcheck, homed>>

\* none of the calls of move_stage_to is inside a try block
VelPropagate ==
    /\ pc \in {"v_roll", "v_pitch_wait", "v_back"}
    /\ mpc = "raised"
    /\ pc' = "raised"
    /\ UNCHANGED <<proc, kVars, auxVars, convVars, stageVars, moveVars,
                   peakVars, devVars, histVars, sweepVars>>

\* a constructed procedure (lines 108-117): each axis holds the jog step left
\* by earlier use of the device
VelConstructed ==
    /\ KOff /\ AuxOff
    /\ ConvOff /\ MoveOff /\ PeakOff /\ HistOff
    /\ par \in SweepRuns
    /\ sweep_roll \in BOOLEAN /\ sweep_pitch \in BOOLEAN
    /\ n_steps_roll = 0 /\ n_steps_pitch = 0 /\ roll_dir = 0
    /\ pitch_dir = 0 /\ oi = 0 /\ oj = 0 /\ pcheck = 0
    /\ homed = [a \in Axes |-> FALSE]
    /\ pos = [a \in Axes |-> 0]
    /\ inflight = [a \in Axes |-> 0]
    /\ env \in {"ideal", "faulty"}
    /\ jog_step \in { [a \in Axes |-> IF a = "roll" THEN Dy(r)
                                      ELSE Dy(PriorRollJog)] :
                      r \in {PriorRollJog,
                             Abs(par.roll_stop - par.roll_start)} }
    /\ stop_flag = FALSE /\ resp = None

\* startup (lines 119-195) at the point where the jog parameters are
\* programmed, the instruments configured (lines 121-145)
VelStartupInit ==
    /\ proc = "VelocityAngleSweep.startup"
    /\ VelConstructed
    /\ pc = "v_setjog"

\* execute (lines 197-353) called on the constructed procedure
VelInit ==
    /\ proc = "VelocityAngleSweep"
    /\ VelConstructed
    /\ pc = "v_start"

VelNext ==
    \/ VelSetJog \/ VelRollStart \/ VelPitchStart \/ VelRamp \/ StopRequest

(***************************************************************************)
(* execute with the helper names bound, after a startup in the same        *)
(* namespace: the axes homed and levelled (lines 162-195), the pitch stage *)
(* programmed with the jog step |pitch_angle_step| (line 159, the second   *)
(* of the two calls on the pitch stage), the roll stage holding the jog    *)
(* step left by earlier use of the device, which startup does not program: *)
(* the step of an earlier run or the span of the ramp.                     *)
(***************************************************************************)
VelBoundInit ==
    /\ HelpersBound
    /\ KOff /\ AuxOff
    /\ ConvOff /\ MoveOff /\ PeakOff /\ HistOff
    /\ par \in SweepRuns
    /\ sweep_roll \in BOOLEAN /\ sweep_pitch \in BOOLEAN
    /\ n_steps_roll = 0 /\ n_steps_pitch = 0 /\ roll_dir = 0
    /\ pitch_dir = 0 /\ oi = 0 /\ oj = 0 /\ pcheck = 0
    /\ homed = [a \in Axes |-> TRUE]
    /\ pos = [a \in Axes |-> AxisOffset(a)]
    /\ inflight = [a \in Axes |-> 0]
    /\ env \in {"ideal", "faulty"}
    /\ jog_step \in { [a \in Axes |-> IF a = "roll" THEN Dy(r)
                                      ELSE Dy(Abs(par.pitch_step))] :
                      r \in {PriorRollJog,
                             Abs(par.roll_stop - par.roll_start)} }
    /\ stop_flag = FALSE /\ resp = None
    /\ pc = "v_start"

\* execute in either namespace
RampInit == VelInit \/ VelBoundInit

RampNext ==
    \/ VelRollStart \/ VelRollPoll \/ VelPitchStart \/ VelPitchPoll
    \/ VelRamp \/ VelRampPoll \/ VelDrain \/ VelBackPoll \/ VelStep
    \/ VelPropagate \/ StopRequest
    \/ MoveAttempt \/ MovePoll \/ MoveFinal \/ MoveRaise

SpecRamp == RampInit /\ [][RampNext]_vars

--------------------------------------------------------------------------
(***************************************************************************)
(* The four procedures that call move_stage_to, each against devices that  *)
(* may fail to follow a move.                                              *)
(***************************************************************************)
ProcInit ==
    PeakInit \/ LevelInit \/ SweepInit \/ VelStartupInit \/ VelInit

ProcNext ==
    \/ PeakStartRoll \/ PeakStartPitch \/ PeakBegin \/ PeakJog \/ PeakRead
    \/ PeakThresh \/ PeakMovePitch \/ PeakSwap \/ PeakRefine \/ PeakBudget \/ PeakStop
    \/ PeakPropagate \/ StopRequest
    \/ LevelHome \/ LevelHomePitch \/ HomeCompletes \/ LevelPoll
    \/ LevelRoll \/ LevelPitch \/ LevelReturn \/ LevelPropagate
    \/ SweepRollStart \/ SweepRollPoll \/ SweepPitchStart \/ SweepPitchPoll
    \/ SweepOuter \/ SweepInner \/ SweepReset \/ SweepResetPoll \/ SweepStop
    \/ SweepPropagate
    \/ VelSetJog \/ VelRollStart \/ VelPitchStart \/ VelRamp
    \/ MoveAttempt \/ MovePoll \/ MoveFinal \/ MoveRaise

SpecProc == ProcInit /\ [][ProcNext]_vars

\* C3: once move_stage_to has raised inside a procedure, the procedure
\* performs no further jog, instrument read, result emission or move
\* command: it stays where the call was made until the exception leaves it,
\* and after that it takes no step at all.
C3_ErrorPropagates ==
    [][(proc # "move_stage_to" /\ (mpc = "raised" \/ pc = "raised"))
         => /\ njogs' = njogs /\ nreads' = nreads /\ nemits' = nemits
            /\ nmoves' = nmoves /\ mpc' = mpc
            /\ pc' \in {pc, "raised"}]_vars

\* the move-to-peak step of a peak search has failed after readings were
\* taken and emitted, and the procedure has been left by the exception
C3_Witness ==
    /\ proc = "PeakFinding" /\ pc = "raised" /\ mpc = "raised"
    /\ nemits >= rev_thresh /\ n_reverse = 0
    /\ attempt = NumRetriesDefault


--------------------------------------------------------------------------
(***************************************************************************)
(* Counters of the peak search                                             *)
(***************************************************************************)
\* line 185: the denominator of the progress fraction
iterations == ref_thresh * rev_thresh * 2

\* C11: a peak search that has left the loop converged has flipped its
\* direction exactly rev_thresh * ref_thresh * 2 times (k counts the flips).
C11_ExactFlips ==
    (proc = "PeakFinding" /\ pc = "done" /\ exit_state = "converged")
        => k = iterations


\* the steps of the running procedure (all of PeakNext but the user's stop
\* request); a running procedure keeps taking its next step
PeakSteps ==
    \/ PeakStartRoll \/ PeakStartPitch \/ PeakBegin
    \/ PeakJog \/ PeakRead \/ PeakThresh \/ PeakMovePitch \/ PeakSwap
    \/ PeakRefine \/ PeakBudget \/ PeakStop \/ PeakPropagate
    \/ MoveAttempt \/ MovePoll \/ MoveFinal \/ MoveRaise

\* the control state: every step of the procedure changes it
ctl == <<pc, mpc, attempt, check, nmoves>>

SpecPeakFair == PeakInit /\ [][PeakNext]_vars /\ WF_ctl(PeakSteps)

TotalJogs == njogs["roll"] + njogs["pitch"]

\* the loop body runs once before the budget is first compared
BudgetCap == IF max_meas < 1 THEN 1 ELSE max_meas

\* C12 as stated: the search issues at most max_meas jog commands and emits
\* at most max_meas records.
C12_AtMostM ==
    proc = "PeakFinding" => (TotalJogs <= max_meas /\ nemits <= max_meas)

\* C12 amended: the search always ends; it issues at most max(max_meas, 1)
\* jog commands and emits as many records as it issued jogs; the sample
\* counter never passes that cap, and the loop is left as budget-exhausted
\* exactly when the counter has reached max_meas.
C12_BudgetBound ==
    /\ [](proc = "PeakFinding" =>
            /\ TotalJogs <= BudgetCap
            /\ nemits = IF pc = "read" THEN TotalJogs - 1 ELSE TotalJogs
            /\ i <= BudgetCap /\ i <= TotalJogs
            /\ (pc = "done" /\ exit_state = "budget") => i >= max_meas
            /\ (pc \in {"stop", "jog", "read"} /\ nemits > 0) => i < max_meas)
    /\ <>(pc \in {"done", "raised"})

\* a search with a budget of at least two samples has used all of it
C12_Witness ==
    /\ proc = "PeakFinding" /\ pc = "done" /\ exit_state = "budget"
    /\ max_meas >= 2 /\ i = max_meas /\ TotalJogs = max_meas
    /\ nemits = max_meas


\* the drop of the reading m from prev is more than the tolerance tol, the
\* three taken as the decimal numbers they are
DropAbove(m, prev, tol) == ~DyLeq(Dy(prev - m), tol)
\* the drop is the tolerance
DropIs(m, prev, tol) == DyLeq(Dy(prev - m), tol) /\ DyLeq(tol, Dy(prev - m))

\* C13: in each iteration (the step from "read" to "thresh") the direction
\* flips between 1 and 2 and n_reverse and k each grow by one exactly when
\* the new reading is below the previous reading minus the tolerance;
\* otherwise all three are unchanged; prev_meas then holds the new reading.
\* "Below" is the comparison of the doubles: a drop larger than the
\* tolerance flips, a smaller one does not, and a drop that is the tolerance
\* flips when prev_meas - curr_tol*1e-9 rounds above the new reading.
C13_FlipOnDrop ==
    [][(proc = "PeakFinding" /\ pc = "read" /\ pc' = "thresh") =>
         /\ IF \/ DropAbove(new_meas', prev_meas, curr_tol)
               \/ /\ DropIs(new_meas', prev_meas, curr_tol)
                  /\ RevDouble(new_meas', prev_meas, curr_tol)
            THEN /\ jog_dir' = 3 - jog_dir /\ jog_dir' \in {1, 2}
                 /\ n_reverse' = n_reverse + 1
                 /\ k' = k + 1
            ELSE /\ jog_dir' = jog_dir /\ n_reverse' = n_reverse /\ k' = k
         /\ prev_meas' = new_meas']_vars

\* a search with the tolerance 0.5 nA has flipped once, in its second
\* iteration, on a reading of 11 nA after one of 11.5 nA: a drop of exactly
\* the tolerance, which the doubles see as a reversal
C13_Witness ==
    /\ proc = "PeakFinding" /\ pc = "thresh" /\ curr_tol = Dy(5000)
    /\ k = 1 /\ n_reverse = 1 /\ jog_dir = 2 /\ nemits = 2
    /\ peak_meas = 115000 /\ new_meas = 110000
    /\ prev_meas = new_meas


\* C14: when n_reverse has reached rev_thresh the same iteration resets it
\* to 0, calls move_stage_to for the roll axis and then for the pitch axis
\* with the recorded peak location, and, both calls having returned, swaps
\* the active axis and adds one to n_refine; below the threshold none of
\* this happens; the active axis changes at no other step; a jog goes to
\* the active axis only.
C14_ThresholdBlock ==
    [][proc = "PeakFinding" =>
         /\ (pc = "thresh" /\ pc' # pc) =>
               IF n_reverse >= rev_thresh
               THEN /\ n_reverse' = 0 /\ pc' = "peak_roll"
                    /\ mpc' = "attempt" /\ m_stage' = "roll" /\ blocking'
                    /\ targ_pos' = peak_loc[1] + roll_offset
               ELSE /\ pc' = "refine" /\ n_reverse' = n_reverse
                    /\ mpc' = mpc /\ n_refine' = n_refine
         /\ (pc = "peak_roll" /\ pc' # pc) =>
               \/ mpc = "raised" /\ pc' = "raised"
               \/ /\ mpc = "returned" /\ pc' = "peak_pitch"
                  /\ PosClose(pos["roll"], peak_loc[1] + roll_offset)
                  /\ mpc' = "attempt" /\ m_stage' = "pitch" /\ blocking'
                  /\ targ_pos' = peak_loc[2] + pitch_offset
         /\ (pc = "peak_pitch" /\ pc' # pc) =>
               \/ mpc = "raised" /\ pc' = "raised"
               \/ /\ mpc = "returned" /\ pc' = "refine"
                  /\ PosClose(pos["pitch"], peak_loc[2] + pitch_offset)
                  /\ stage' = OtherAxis(stage) /\ stage' # stage
                  /\ n_refine' = n_refine + 1
         /\ pc \in {"peak_roll", "peak_pitch"} =>
               /\ i' = i /\ njogs' = njogs /\ nemits' = nemits
               /\ peak_loc' = peak_loc /\ n_reverse' = 0
         /\ (stage' # stage /\ pc # "start_pitch") => pc = "peak_pitch"
         /\ \A a \in Axes : njogs'[a] # njogs[a] => a = stage
         /\ n_reverse' <= rev_thresh]_vars

\* the first threshold pass is over: four reversals on roll, both moves
\* returned, the active axis is now pitch and has not been jogged yet
C14_Witness ==
    /\ proc = "PeakFinding" /\ pc = "refine" /\ stage = "pitch"
    /\ n_refine = 1 /\ n_reverse = 0 /\ k = rev_thresh
    /\ njogs["pitch"] = 0 /\ njogs["roll"] >= rev_thresh
    /\ mpc = "returned" /\ m_stage = "pitch"


\* C15: when n_refine has reached ref_thresh it is reset to 0 and step_size
\* and curr_tol are halved; a new step below the floor ends the search with
\* no jog step reprogrammed, otherwise both axes get the new step as their
\* jog step before the next jog; below the threshold nothing changes.  Every
\* jog is made with the jog step equal to the current step size.
\* x is y / 2
IsHalf(x, y) == 2 * x.n * (2 ^ y.e) = y.n * (2 ^ x.e)
C15_RefineBlock ==
    [][proc = "PeakFinding" =>
         /\ (pc = "refine" /\ pc' # pc) =>
               IF n_refine >= ref_thresh
               THEN /\ n_refine' = 0
                    /\ IsHalf(step_size', step_size)
                    /\ IsHalf(curr_tol', curr_tol)
                    /\ IF DyBelow(step_size', StepFloor)
                       THEN /\ pc' = "done" /\ exit_state' = "converged"
                            /\ jog_step' = jog_step /\ nsetjog' = nsetjog
                       ELSE /\ pc' = "budget"
                            /\ \A a \in Axes : jog_step'[a] = DyAbs(step_size')
                            /\ nsetjog' = nsetjog + 2
               ELSE /\ pc' = "budget"
                    /\ n_refine' = n_refine /\ step_size' = step_size
                    /\ curr_tol' = curr_tol /\ jog_step' = jog_step
                    /\ nsetjog' = nsetjog
         /\ (pc = "jog" /\ pc' # pc) =>
               \A a \in Axes : jog_step[a] = DyAbs(step_size)
         /\ n_refine' <= ref_thresh]_vars

\* a search has jogged after its first refinement, with the halved step
\* programmed on both axes
C15_Witness ==
    /\ proc = "PeakFinding" /\ pc = "thresh" /\ halvings = 1
    /\ IsHalf(step_size, Dy(angle_step)) /\ ~DyBelow(step_size, StepFloor)
    /\ nsetjog = 2 /\ \A a \in Axes : jog_step[a] = step_size


\* C16 as stated: a halving happens when each axis has made one threshold
\* pass since the previous halving.
C16_OnePassEach ==
    [][(proc = "PeakFinding" /\ halvings' # halvings) =>
          passes = [a \in Axes |-> 1]]_vars

\* C16 amended: a halving happens exactly when ref_thresh = 4 threshold
\* passes have been made since the previous halving, which alternate
\* between the axes starting with roll: two passes on roll and two on pitch.
C16_TwoPassesEach ==
    [][proc = "PeakFinding" =>
         /\ (pc = "refine" /\ pc' # pc) =>
               (halvings' = halvings + 1 <=> passes = [a \in Axes |-> 2])
         /\ halvings' # halvings =>
               /\ pc = "refine" /\ n_refine = ref_thresh
               /\ halvings' = halvings + 1
               /\ passes' = [a \in Axes |-> 0]
         /\ passes'["roll"] + passes'["pitch"] = n_refine'
         /\ passes'["pitch"] <= passes'["roll"]
         /\ passes'["roll"] <= passes'["pitch"] + 1]_vars

\* the first halving has just been made, after two passes on each axis
C16_Witness ==
    /\ proc = "PeakFinding" /\ pc = "budget" /\ halvings = 1
    /\ passes = [a \in Axes |-> 0] /\ n_refine = 0
    /\ k = rev_thresh * ref_thresh /\ stage = "roll"


--------------------------------------------------------------------------
(***************************************************************************)
(* Homing and levelling                                                    *)
(***************************************************************************)
\* C17: level_axes leaves the homing loop for the levelling moves only when
\* the homed flag of both axes is true or 20 polls have been counted.
C17_BothHomedOrTimeout ==
    [][(proc = "level_axes" /\ pc = "l_poll" /\ pc' = "l_level") =>
          \/ homed["roll"] /\ homed["pitch"]
          \/ pcheck' >= PollLimit]_vars

\* C18: the homing loop is never left by an exception; when the roll flag is
\* still false it is left after exactly 20 polls; and in every case
\* level_axes goes on to call move_stage_to for the roll axis with 45 deg
\* and, that call having returned, for the pitch axis with -32.7 deg.
C18_HomingTimeoutNotFatal ==
    [][proc = "level_axes" =>
         /\ (pc = "l_poll" /\ pc' # pc) =>
               /\ pc' = "l_level"
               /\ ~homed["roll"] => pcheck' = PollLimit
         /\ (pc = "l_level" /\ pc' # pc) =>
               /\ pc' = "l_roll" /\ mpc' = "attempt" /\ m_stage' = "roll"
               /\ targ_pos' = 45 * DEG /\ blocking'
         /\ (pc = "l_roll" /\ pc' # pc) =>
               \/ mpc = "raised" /\ pc' = "raised"
               \/ /\ mpc = "returned" /\ pc' = "l_pitch"
                  /\ mpc' = "attempt" /\ m_stage' = "pitch"
                  /\ targ_pos' = -327 * (DEG \div 10) /\ blocking'
         /\ (pc = "l_pitch" /\ pc' # pc) =>
               \/ mpc = "raised" /\ pc' = "raised"
               \/ mpc = "returned" /\ pc' = "done"]_vars

\* homing timed out on the roll axis, and both levelling calls were still
\* made and returned
C18_Witness ==
    /\ proc = "level_axes" /\ pc = "done" /\ ~homed["roll"]
    /\ pcheck = PollLimit /\ m_stage = "pitch" /\ mpc = "returned"
    /\ targ_pos = pitch_offset


--------------------------------------------------------------------------
(***************************************************************************)
(* Keithley6487  (src/keithley.py)                                         *)
(*                                                                         *)
(* A written command is a record: c is the command text up to its numeric  *)
(* argument, a the argument in units of its last printed digit (0 when the *)
(* command has none).  Sweep voltages are integers in 1e-2 V, bias         *)
(* voltages in 1e-4 V; the code holds the double nearest to such a value   *)
(* and formats and divides that double: '{:.2f}' of 0.005 V is 0.01 and    *)
(* '{:0.1f}' of 0.15 V is 0.1, and (0.3 - 0) / 0.1 is 2.9999999999999996.  *)
(***************************************************************************)
Cmd(c, a) == [c |-> c, a |-> a]

\* '{:.<places>f}'.format(x) for the double x nearest to n * 10^(-digits),
\* in units of the last printed digit: the binary value of x, not the
\* decimal n, is rounded to `places` decimals, to even when it is exactly
\* half-way ('{:.2f}'.format(0.005) is '0.01' since the double is above
\* 0.005, and '{:.2f}'.format(0.125) is '0.12')
FormatFixed(n, digits, places) ==
    LET d == 10 ^ (digits - places)
        a == Abs(n)
        q == a \div d
        r == a % d
        f == FDec(a, digits)
        \* the double f against the decimal a * 10^(-digits), both times
        \* 10^digits * 2^(-f.x)
        fs == BMul(f.m, BOf(10 ^ digits))
        as == BShl(BOf(a), -f.x)
        up == IF 2 * r # d THEN 2 * r > d
              ELSE IF BLess(as, fs) THEN TRUE
              ELSE IF BLess(fs, as) THEN FALSE
              ELSE q % 2 = 1
        v == IF up THEN q + 1 ELSE q
    IN  IF n < 0 THEN -v ELSE v

\* an enable issued before the current limit
set_bias_enable_first(voltage) ==
    << Cmd("SOUR:VOLT:RANG", 10),
       Cmd("SOUR:VOLT", FormatFixed(voltage, BiasDigits, 2)),
       Cmd("SOUR:VOLT:STAT ON", 0),
       Cmd("SOUR:VOLT:ILIM 2.5e-5", 0) >>

\* lines 91-96
set_bias_voltage(voltage) ==
    << Cmd("SOUR:VOLT:RANG", 10),
       Cmd("SOUR:VOLT", FormatFixed(voltage, BiasDigits, 2)),
       Cmd("SOUR:VOLT:ILIM 2.5e-5", 0),
       Cmd("SOUR:VOLT:STAT ON", 0) >>

\* lines 34-35
reset == << Cmd("*RST", 0) >>

\* lines 71-73
start_sweep == << Cmd("SOUR:VOLT:SWE:INIT", 0), Cmd("INIT", 0) >>

\* lines 37-49, with nplc in units of 1e-2; the first command is the one
\* of reset()
configure(nplc) ==
    reset \o
    << Cmd("SYST:ZCH OFF", 0), Cmd("AVER:COUN", 3),
       Cmd("AVER:TCON rep", 0), Cmd("AVER ON", 0),
       Cmd("SENS:CURR:NPLC", FormatFixed(nplc, 2, 2)), Cmd("INIT", 0) >>

\* lines 84-89: the commands of one reading
get_current == << Cmd("INIT", 0), Cmd("READ?", 0) >>

\* the property buffer_size: reading it asks the instrument for the number
\* of readings stored in its buffer
buffer_size == << Cmd(":TRAC:POIN:ACT?", 0) >>

\* line 69: int(abs((stop - start) / step) + 1) for a step other than 0, in
\* doubles
ArmCount(start, stop, step) ==
    FInt(FAdd(FAbs(FDiv(FSub(FDec(stop, VoltDigits), FDec(start, VoltDigits)),
                        FDec(step, VoltDigits))),
              FDec(1, 0)))

\* lines 51-69, with delay in ms
configure_sweep(start, stop, step, delay, nplc, polarity) ==
    << Cmd("SYST:ZCH OFF", 0), Cmd("AVER:COUN", 3), Cmd("AVER:TCON rep", 0),
       Cmd("AVER ON", 0), Cmd("SENS:CURR:NPLC", FormatFixed(nplc, 2, 2)),
       Cmd("SOUR:VOLT:SWE:STAR", FormatFixed(start, VoltDigits, 1)) >>
    \o (IF polarity = "Anode"
        THEN << Cmd("SOUR:VOLT:SWE:STOP", FormatFixed(-stop, VoltDigits, 1)) >>
        ELSE << >>)
    \o (IF polarity = "Cathode"
        THEN << Cmd("SOUR:VOLT:SWE:STOP", FormatFixed(stop, VoltDigits, 1)) >>
        ELSE << >>)
    \o << Cmd("SOUR:VOLT:SWE:STEP", FormatFixed(step, VoltDigits, 2)),
          Cmd("SOUR:VOLT:SWE:DEL", FormatFixed(delay, 3, 3)),
          Cmd("FORM:ELEM ALL", 0), Cmd("FORM:SREG ASC", 0),
          Cmd("ARM:COUN", ArmCount(start, stop, step)) >>

\* calls made in one run of the instrument
MaxCalls == 2
\* bias voltages from -VoltMax/16 V to VoltMax/16 V, and voltages half-way
\* between two printed values
VoltMax == 8
BiasInputs == { 625 * n : n \in -VoltMax..VoltMax } \cup {50, 150, -250}
SweepStarts == {0, 5}
SweepStops == {0, 15, 30, 70, 100, 2000}
SweepSteps == {10, 25, 50, 75}
Polarities == {"Anode", "Cathode", "Floating"}

KSetBias ==
    /\ kcalls < MaxCalls
    /\ \E v \in BiasInputs :
          /\ wire' = wire \o set_bias_voltage(v)
          /\ kargs' = [m |-> "set_bias_voltage", voltage |-> v]
    /\ kcalls' = kcalls + 1
    /\ UNCHANGED <<proc, auxVars, convVars, stageVars, moveVars, procVars>>

KConfigure ==
    /\ kcalls < MaxCalls
    /\ wire' = wire \o configure(100)
    /\ kargs' = [m |-> "configure"]
    /\ kcalls' = kcalls + 1
    /\ UNCHANGED <<proc, auxVars, convVars, stageVars, moveVars, procVars>>

KGetCurrent ==
    /\ kcalls < MaxCalls
    /\ wire' = wire \o get_current
    /\ kargs' = [m |-> "get_current"]
    /\ kcalls' = kcalls + 1
    /\ UNCHANGED <<proc, auxVars, convVars, stageVars, moveVars, procVars>>

\* the counts the instrument may reply to the buffer query
BufferCounts == {0, 17}

KBufferSize ==
    /\ kcalls < MaxCalls
    /\ wire' = wire \o buffer_size
    /\ \E n \in BufferCounts : kargs' = [m |-> "buffer_size", value |-> n]
    /\ kcalls' = kcalls + 1
    /\ UNCHANGED <<proc, auxVars, convVars, stageVars, moveVars, procVars>>

\* the sweep inputs, each with what configure_sweep writes for it with a
\* delay of 10 ms and an nplc of 1
SweepWrites ==
    { [in |-> in,
       out |-> configure_sweep(in[1], in[2], in[3], 10, 100, in[4])] :
        in \in SweepStarts \X SweepStops \X SweepSteps \X Polarities }
SweepWrite(start, stop, step, polarity) ==
    (CHOOSE w \in SweepWrites : w.in = <<start, stop, step, polarity>>).out

KConfigureSweep ==
    /\ kcalls < MaxCalls
    /\ \E start \in SweepStarts, stop \in SweepStops, step \in SweepSteps,
          polarity \in Polarities :
          /\ wire' = wire \o SweepWrite(start, stop, step, polarity)
          /\ kargs' = [m |-> "configure_sweep", start |-> start,
                       stop |-> stop, step |-> step, polarity |-> polarity]
    /\ kcalls' = kcalls + 1
    /\ UNCHANGED <<proc, auxVars, convVars, stageVars, moveVars, procVars>>

KReset ==
    /\ kcalls < MaxCalls
    /\ wire' = wire \o reset
    /\ kargs' = [m |-> "reset"]
    /\ kcalls' = kcalls + 1
    /\ UNCHANGED <<proc, auxVars, convVars, stageVars, moveVars, procVars>>

KStartSweep ==
    /\ kcalls < MaxCalls
    /\ wire' = wire \o start_sweep
    /\ kargs' = [m |-> "start_sweep"]
    /\ kcalls' = kcalls + 1
    /\ UNCHANGED <<proc, auxVars, convVars, stageVars, moveVars, procVars>>

\* status bytes the instrument may answer to *STB?
StbValues == {0, 1, 128, 129}
\* what goes wrong during a call: nothing; the write of *CLS fails; the
\* write of the *STB? query fails; the query is written and the read of its
\* reply fails (ask is a write followed by a read); the reply arrives and is
\* not an integer (int() raises ValueError)
Faults == {"none", "write", "ask", "ask_read", "reply"}
\* the failures of the transport among them
TransportFaults == {"write", "ask", "ask_read"}

\* lines 75-82: sweep_state().  The write is outside the try block, so its
\* failure leaves the method as an exception; the query and the conversion
\* of its reply are inside `try: ... except: resp = 1`, so whatever fails
\* there becomes the return value 1, with *STB? on the wire unless it was
\* its write that failed.
KSweepState ==
    /\ kcalls < MaxCalls
    /\ \E fault \in Faults, stb \in StbValues :
          /\ wire' = wire \o (IF fault = "write" THEN << >>
                               ELSE << Cmd("*CLS", 0) >>)
                          \o (IF fault \in {"write", "ask"} THEN << >>
                              ELSE << Cmd("*STB?", 0) >>)
          /\ kargs' = [m |-> "sweep_state", fault |-> fault,
                       outcome |-> IF fault = "write" THEN "raised"
                                   ELSE "returned",
                       value |-> IF fault = "write" THEN NoValue
                                 ELSE IF fault # "none" THEN 1
                                 ELSE ((stb \div 128) % 2) * 128]
    /\ kcalls' = kcalls + 1
    /\ UNCHANGED <<proc, auxVars, convVars, stageVars, moveVars, procVars>>

KInit ==
    /\ proc = "Keithley6487"
    /\ KOff /\ AuxOff /\ ConvOff /\ StageOff /\ MoveOff /\ ProcOff

KNext ==
    \/ KReset \/ KSetBias \/ KConfigure \/ KGetCurrent \/ KBufferSize \/ KConfigureSweep
    \/ KStartSweep \/ KSweepState

SpecKeithley == KInit /\ [][KNext]_vars

\* C19: every call of set_bias_voltage appends exactly four commands, in the
\* order source range, voltage level, current limit, output enable: the
\* current limit is written before the enable and the enable is last.
C19_BiasOrder ==
    [][(kargs'.m = "set_bias_voltage" /\ kcalls' # kcalls) =>
         LET n == Len(wire) IN
         /\ Len(wire') = n + 4
         /\ SubSeq(wire', 1, n) = wire
         /\ wire'[n + 1].c = "SOUR:VOLT:RANG"
         /\ wire'[n + 2].c = "SOUR:VOLT"
         /\ wire'[n + 3].c = "SOUR:VOLT:ILIM 2.5e-5"
         /\ wire'[n + 4].c = "SOUR:VOLT:STAT ON"
         /\ \A j \in n + 1 .. n + 3 : wire'[j].c # "SOUR:VOLT:STAT ON"]_vars

\* the bias has been set after another call, to a voltage that is not zero
C19_Witness ==
    /\ kargs.m = "set_bias_voltage" /\ kargs.voltage # 0 /\ kcalls = 2
    /\ Len(wire) > 4
    /\ wire[Len(wire)].c = "SOUR:VOLT:STAT ON"

\* the smallest integer not below n / d, for n >= 0 and d > 0
CeilDiv(n, d) == (n + d - 1) \div d

\* C20: the arm count programmed by configure_sweep is
\* ceil(|stop - start| / step) + 1.
C20_ArmCountCeil ==
    kargs.m = "configure_sweep" =>
        wire[Len(wire)] =
            Cmd("ARM:COUN",
                CeilDiv(Abs(kargs.stop - kargs.start), kargs.step) + 1)

---------------------------------------------------------------------------
(***************************************************************************)
(* The ramp of VelocityAngleSweep.execute (lines 269-318)                  *)
(*                                                                         *)
(* Run in the module by itself, every call of execute ends in NameError    *)
(* before a ramp is made: the loop of line 269 is entered at least once,   *)
(* since n_steps_pitch >= 1, and its first statement calls move_jog.  With *)
(* the helper names bound a ramp logs, in `events`, the roll jog, INIT,    *)
(* the wait (with the number of sleeps and whether the stop position was   *)
(* reached), ABOR, the count query with the count read and the drain with  *)
(* the currents read, and puts one record per sample in `emitted` with the *)
(* fields sample, current and roll (a double).  SpecRamp runs execute in   *)
(* both namespaces.                                                        *)
(***************************************************************************)
\* a call of VelocityAngleSweep.execute has ended, and not by a failure of
\* move_stage_to
VelEnded ==
    /\ proc = "VelocityAngleSweep"
    /\ pc \in {"done", "raised"}
    /\ mpc # "raised"

\* the commands of the log, without their numbers
Cmds == [e \in 1..Len(events) |-> events[e].cmd]

\* the six commands of a ramp
RampCmds == <<"jog", "INIT", "wait", "ABOR", "count", "drain">>

\* the ramp of the log has drained the buffer
Drained == Cmds = RampCmds

\* the sample count the picoammeter reported and the trace it returned
CountRead == events[5].arg[1]
TraceRead == events[6].arg

\* the doubles f and g are the same number
FEq(f, g) == ~FLess(f, g) /\ ~FLess(g, f)

\* the angles of the emitted records
Angles == [s \in 1..Len(emitted) |-> emitted[s].roll]

\* the s-th of n >= 2 evenly spaced angles from start to stop:
\* (start * (n - s) + stop * (s - 1)) / (n - 1), to the nearest double
EvenAt(start, stop, s, n) ==
    FDiv(FDec(start * (n - s) + stop * (s - 1), DegDigits), FDec(n - 1, 0))

\* the rounding allowed to an angle computed in doubles: 1e-12 deg
SpacingTol == FDec(1, 12)

\* the angles y are evenly spaced from start to stop, each to within the
\* rounding of the doubles
Spaced(start, stop, y) ==
    \A s \in 1..Len(y) :
        Len(y) >= 2 =>
            FLeq(FAbs(FSub(y[s], EvenAt(start, stop, s, Len(y)))),
                 SpacingTol)

\* the first of the angles y is the start and the last of them the stop
BothEnds(start, stop, y) ==
    Len(y) >= 1 =>
        /\ FEq(y[1], FDec(start, DegDigits))
        /\ FEq(y[Len(y)], FDec(stop, DegDigits))

\* the first of the angles y is the start and the last of two or more the
\* stop
EndsFromTwo(start, stop, y) ==
    /\ Len(y) >= 1 => FEq(y[1], FDec(start, DegDigits))
    /\ Len(y) >= 2 => FEq(y[Len(y)], FDec(stop, DegDigits))

\* the three properties of the angles computed for the ramps of the runs,
\* each evaluated once
RampAngles ==
    { <<p.roll_start, p.roll_stop,
        Linspace(FDec(p.roll_start, DegDigits),
                 FDec(p.roll_stop, DegDigits), n)>> :
        p \in SweepRuns, n \in 0..MaxBuf }
RampChecks ==
    { [in |-> c,
       spaced |-> Spaced(c[1], c[2], c[3]),
       both |-> BothEnds(c[1], c[2], c[3]),
       fromtwo |-> EndsFromTwo(c[1], c[2], c[3])] : c \in RampAngles }
RampCase == <<par.roll_start, par.roll_stop, Angles>>
RampCheck == CHOOSE w \in RampChecks : w.in = RampCase

\* the properties of the angles of the emitted records
EvenlySpaced ==
    IF RampCase \in RampAngles THEN RampCheck.spaced
    ELSE Spaced(par.roll_start, par.roll_stop, Angles)
StartAndStop ==
    IF RampCase \in RampAngles THEN RampCheck.both
    ELSE BothEnds(par.roll_start, par.roll_stop, Angles)
StartAndStopFromTwo ==
    IF RampCase \in RampAngles THEN RampCheck.fromtwo
    ELSE EndsFromTwo(par.roll_start, par.roll_stop, Angles)

\* exactly n records, the s-th pairing the s-th angle with the s-th current
PairedRecords ==
    /\ Len(emitted) = CountRead
    /\ Len(TraceRead) = CountRead
    /\ \A s \in 1..Len(emitted) :
          emitted[s].sample = s /\ emitted[s].current = TraceRead[s]

C21_Single ==
    /\ HelpersBound /\ Drained
    /\ Len(emitted) = 1
    /\ StartAndStopFromTwo /\ ~StartAndStop

\* C22: in every ramp the commands go out in the order: roll jog, INIT,
\* the position wait of at most 300 sleeps, ABOR, the sample count query,
\* the drain of the buffer; the ABOR comes before the count and the drain
\* whether the wait ended on the stop position or on its limit, which it
\* reaches only after 300 sleeps.
C22_RampOrder ==
    InVel =>
        /\ \E n \in {0, 2, 3, 6} : Cmds = SubSeq(RampCmds, 1, n)
        /\ pc = "v_ramp" => Cmds = <<"jog", "INIT">> /\ pcheck < RampLimit
        /\ pc = "v_drain" => Len(events) = 3
        /\ Len(events) >= 3 =>
              /\ events[3].arg[1] <= RampLimit
              /\ events[3].arg[2] = 0 => events[3].arg[1] = RampLimit
        /\ njogs["roll"] = 0 => events = << >>

\* a ramp whose wait ran into its limit of 300 sleeps has aborted, counted
\* and drained
C22_Witness ==
    /\ HelpersBound /\ Drained
    /\ events[3].arg = <<RampLimit, 0>>
    /\ events[4].cmd = "ABOR"

\* a ramp whose wait ended on the stop position has aborted, counted and
\* drained
C22_Reached ==
    /\ HelpersBound /\ Drained
    /\ events[3].arg[2] = 1 /\ events[3].arg[1] < RampLimit

---------------------------------------------------------------------------
(***************************************************************************)
(* Cancellation: should_stop is called at three places only, at the end    *)
(* of a pass of the peak search loop (peak finding, line 265), of the      *)
(* inner sweep loop (procedures, line 360) and of the ramp loop (velocity, *)
(* line 349).                                                              *)
(***************************************************************************)
\* C23: the stop flag is looked at on every pass of every loop of a running
\* procedure, the polling loops included, so that once the flag is set no
\* polling loop makes a second pass: at most the pass in progress ends
\* after the flag was set.
C23_ObservedWithinOnePoll == late_polls <= 1

\* the inner loop of AngleSweep.execute was left by the break of line 362:
\* the roll loop had passes left
StopCaught ==
    /\ proc = "AngleSweep"
    /\ pc \in {"a_reset", "a_reset_wait", "a_stop"}
    /\ oj < n_steps_roll

\* C24: once the inner loop of AngleSweep.execute has caught the stop flag,
\* no step of the procedure calls move_stage_to, sends a move_by or jogs an
\* axis.
C24_NoMotionAfterStop ==
    [][StopCaught =>
          /\ ~(mpc # "attempt" /\ mpc' = "attempt")
          /\ nmoves' # nmoves + 1
          /\ njogs' = njogs]_vars

---------------------------------------------------------------------------
(***************************************************************************)
(* The oscillation controller and the sampling loop, one oscillation task  *)
(* per axis and one sampling task, sharing the cancellation signal.        *)
(*                                                                         *)
(* The sources at hand hold no oscillation controller; the tasks are       *)
(* modelled from the specification (sections 4.5, 4.6 and 5).              *)
(*                                                                         *)
(*   osc[a].state  movingToStart, oscillating or stopped                   *)
(*   osc[a].dir    1 forward, -1 backward                                  *)
(*   osc[a].last   the position polled last, .prev the one before          *)
(*   osc[a].polls  polls made;  .cmds  velocity commands sent;             *)
(*   osc[a].stops  stop commands sent;                                     *)
(*   osc[a].late   polls completed with the signal set and not observed    *)
(*   samp.state    read (about to read and emit), check (about to look at  *)
(*                 the signal) or stopped;  samp.n records emitted         *)
(***************************************************************************)
\* the bounds [minAngle, maxAngle] of the oscillation
OscMin == 0
OscMax == 10000
\* the simulated position feed: just below and at the lower bound, at and
\* just above the upper bound
Feed == {OscMin - 1, OscMin, OscMax, OscMax + 1}
\* polls per axis and records followed before cancellation
MaxOscPolls == 3
MaxOscSamples == 2

\* entry: moveStageTo(axis, minAngle) has returned; direction = forward and
\* moveAtVelocity(forward) is issued
OscEnter(a) ==
    /\ osc[a].state = "movingToStart"
    /\ osc' = [osc EXCEPT ![a].state = "oscillating", ![a].dir = 1,
                          ![a].cmds = 1]
    /\ UNCHANGED <<proc, kVars, logVars, late_polls, samp, convVars,
                   stageVars, moveVars, procVars>>

\* the position is beyond the bound the axis is moving towards
Crossing(dir, p) == (dir = 1 /\ p > OscMax) \/ (dir = -1 /\ p < OscMin)

\* the loop with the reversal made on the position alone, whatever the
\* direction
OscPollNoDir(a) ==
    /\ osc[a].state = "oscillating"
    /\ osc[a].polls < MaxOscPolls \/ stop_flag
    /\ IF stop_flag
       THEN osc' = [osc EXCEPT ![a].stops = @ + 1, ![a].state = "stopped"]
       ELSE \E p \in Feed :
              osc' = [osc EXCEPT
                        ![a].prev = osc[a].last, ![a].last = p,
                        ![a].polls = @ + 1,
                        ![a].dir = IF p > OscMax THEN -1
                                   ELSE IF p < OscMin THEN 1 ELSE @,
                        ![a].cmds = IF p > OscMax \/ p < OscMin
                                    THEN @ + 1 ELSE @]
    /\ UNCHANGED <<proc, kVars, logVars, late_polls, samp, convVars,
                   stageVars, moveVars, procVars>>

\* the loop that looks at the signal only on passes without a reversal
OscPollLate(a) ==
    /\ osc[a].state = "oscillating"
    /\ osc[a].polls < MaxOscPolls \/ stop_flag
    /\ \E p \in Feed :
          IF Crossing(osc[a].dir, p)
          THEN osc' = [osc EXCEPT
                         ![a].prev = osc[a].last, ![a].last = p,
                         ![a].polls = IF @ < MaxOscPolls THEN @ + 1 ELSE @,
                         ![a].dir = -osc[a].dir, ![a].cmds = @ + 1,
                         ![a].late = IF stop_flag THEN 1 ELSE @]
          ELSE IF stop_flag
               THEN osc' = [osc EXCEPT ![a].stops = @ + 1,
                                       ![a].state = "stopped"]
               ELSE osc' = [osc EXCEPT
                              ![a].prev = osc[a].last, ![a].last = p,
                              ![a].polls = @ + 1]
    /\ UNCHANGED <<proc, kVars, logVars, late_polls, samp, convVars,
                   stageVars, moveVars, procVars>>

\* one pass of the loop: on cancellation stopMotion and exit; else read the
\* position, and on a crossing flip the direction and reissue
\* moveAtVelocity
OscPoll(a) ==
    /\ osc[a].state = "oscillating"
    /\ osc[a].polls < MaxOscPolls \/ stop_flag
    /\ IF stop_flag
       THEN osc' = [osc EXCEPT ![a].stops = @ + 1, ![a].state = "stopped"]
       ELSE \E p \in Feed :
              osc' = [osc EXCEPT
                        ![a].prev = osc[a].last, ![a].last = p,
                        ![a].polls = @ + 1,
                        ![a].dir = IF Crossing(osc[a].dir, p) THEN -@ ELSE @,
                        ![a].cmds = IF Crossing(osc[a].dir, p)
                                    THEN @ + 1 ELSE @]
    /\ UNCHANGED <<proc, kVars, logVars, late_polls, samp, convVars,
                   stageVars, moveVars, procVars>>

\* the sampling loop: read the current and both positions and emit a
\* record; then look at the signal
SampleStep ==
    /\ \/ /\ samp.state = "read"
          /\ samp.n < MaxOscSamples \/ stop_flag
          /\ samp' = [samp EXCEPT !.state = "check",
                         !.n = IF @ < MaxOscSamples THEN @ + 1 ELSE @]
       \/ /\ samp.state = "check"
          /\ samp' = [samp EXCEPT
                         !.state = IF stop_flag THEN "stopped" ELSE "read"]
    /\ UNCHANGED <<proc, kVars, logVars, late_polls, osc, convVars,
                   stageVars, moveVars, procVars>>

\* all three tasks are running
AllRunning ==
    /\ \A a \in Axes : osc[a].state = "oscillating"
    /\ samp.state \in {"read", "check"}

\* the shared signal is set while the three tasks run
OscCancel ==
    /\ proc = "Oscillation"
    /\ AllRunning
    /\ ~stop_flag
    /\ stop_flag' = TRUE
    /\ UNCHANGED <<proc, kVars, auxVars, convVars, stageVars, moveVars, pc,
                   peakVars, jog_step, resp, histVars, sweepVars>>

OscInit ==
    /\ proc = "Oscillation"
    /\ KOff /\ ConvOff /\ StageOff /\ MoveOff /\ ProcOff
    /\ events = <<>> /\ emitted = <<>> /\ late_polls = 0
    /\ osc = [a \in Axes |-> [OscIdle EXCEPT !.state = "movingToStart"]]
    /\ samp = [SampIdle EXCEPT !.state = "read"]

OscNext ==
    \/ \E a \in Axes : OscEnter(a)
    \/ \E a \in Axes : OscPoll(a)
    \/ SampleStep
    \/ OscCancel

SpecOsc == OscInit /\ [][OscNext]_vars

\* every task keeps running while it can
SpecOscFair ==
    /\ OscInit /\ [][OscNext]_vars
    /\ \A a \in Axes : WF_oscVars(OscPoll(a))
    /\ WF_oscVars(SampleStep)

\* C25: on every poll the controller flips its direction and sends one
\* velocity command exactly when the polled position is beyond the bound
\* it moves towards (above max going forward, below min going backward);
\* on every other poll, one beyond the bound it already turned at
\* included, the direction stays and no command is sent.
C25_OneCommandPerReversal ==
    [][\A a \in Axes :
         (osc'[a].polls = osc[a].polls + 1) =>
            IF Crossing(osc[a].dir, osc'[a].last)
            THEN /\ osc'[a].dir = -osc[a].dir
                 /\ osc'[a].cmds = osc[a].cmds + 1
            ELSE /\ osc'[a].dir = osc[a].dir
                 /\ osc'[a].cmds = osc[a].cmds]_vars

\* the roll axis has turned once above the upper bound and was polled
\* there again without a second command
C25_Witness ==
    /\ osc["roll"].polls = 2
    /\ osc["roll"].prev > OscMax /\ osc["roll"].last > OscMax
    /\ osc["roll"].dir = -1
    /\ osc["roll"].cmds = 2

\* every task has observed the signal and left its loop
AllStopped ==
    /\ \A a \in Axes : osc[a].state = "stopped"
    /\ samp.state = "stopped"

\* a task makes no pass with the signal set without observing it, an axis
\* gets a stop command when its task observes the signal and never a
\* second one
StopOnce ==
    /\ \A a \in Axes :
          /\ osc[a].late = 0
          /\ osc[a].stops = IF osc[a].state = "stopped" THEN 1 ELSE 0
    /\ samp.late = 0
    /\ samp.state = "stopped" => stop_flag

\* C26: when the signal is set while the two oscillation tasks and the
\* sampling task run, under every interleaving each task observes it at
\* its next look, each axis gets exactly one stop command, and all three
\* tasks end.
C26_AllObserveStopOnce == []StopOnce /\ (stop_flag ~> AllStopped)

\* the signal was set in the middle of the run and all tasks have ended,
\* each axis with one stop command
C26_Witness ==
    /\ AllStopped
    /\ \A a \in Axes : osc[a].stops = 1 /\ osc[a].polls >= 1
    /\ osc["roll"].cmds = 2 /\ samp.n >= 1

---------------------------------------------------------------------------
\* C27: a transport failure on a command of the instrument leaves the
\* method as an exception: a call of sweep_state during which the transport
\* failed does not return a value.
C27_FailurePropagates ==
    (kargs.m = "sweep_state" /\ kargs.fault \in TransportFaults)
        => kargs.outcome = "raised"

---------------------------------------------------------------------------
(***************************************************************************)
(* The records of AngleSweep.execute (lines 294-362)                       *)
(***************************************************************************)
\* the (start, stop, |step|) for which the double-precision quotient
\* |stop - start| / |step| is below the whole number that the exact quotient
\* is (abs(0.3 - 0) / abs(0.1) = 2.9999999999999996), among the starts 0,
\* 0.5 and 1 deg, the stops 0, 0.1, ... 2 deg and the steps 0.1, 0.2, 0.5
\* and 1 deg of either sign
DegQuotientShort ==
    { <<0, 3000, 1000>>, <<0, 6000, 1000>>, <<0, 6000, 2000>>,
      <<0, 7000, 1000>>, <<0, 12000, 1000>>, <<0, 12000, 2000>>,
      <<0, 14000, 1000>>, <<0, 14000, 2000>>, <<0, 19000, 1000>>,
      <<5000, 2000, 1000>>, <<5000, 4000, 1000>>, <<5000, 6000, 1000>>,
      <<5000, 7000, 1000>>, <<5000, 7000, 2000>>, <<5000, 12000, 1000>>,
      <<5000, 14000, 1000>>, <<5000, 17000, 1000>>, <<5000, 17000, 2000>>,
      <<5000, 19000, 1000>>, <<5000, 19000, 2000>>, <<10000, 3000, 1000>>,
      <<10000, 4000, 1000>>, <<10000, 4000, 2000>>, <<10000, 8000, 1000>>,
      <<10000, 8000, 2000>>, <<10000, 9000, 1000>>, <<10000, 12000, 1000>>,
      <<10000, 12000, 2000>>, <<10000, 14000, 1000>>, <<10000, 14000, 2000>>,
      <<10000, 17000, 1000>>, <<10000, 19000, 1000>> }

\* the value of int(|stop - start| / |step| + 1) for a swept axis, 1 for an
\* unswept one: the whole part of the decimal quotient plus one, except
\* where the quotient of the doubles falls short of that whole number
StepsOf(swept, start, stop, step) ==
    IF ~swept THEN 1
    ELSE IF <<start, stop, Abs(step)>> \in DegQuotientShort
    THEN Abs(stop - start) \div Abs(step)
    ELSE (Abs(stop - start) \div Abs(step)) + 1
RollSteps ==
    StepsOf(sweep_roll, par.roll_start, par.roll_stop, par.roll_step)
PitchSteps ==
    StepsOf(sweep_pitch, par.pitch_start, par.pitch_stop, par.pitch_step)

\* an AngleSweep.execute has returned and the stop flag was never set
SweepComplete == proc = "AngleSweep" /\ pc = "done" /\ ~stop_flag

\* C28: an AngleSweep.execute that returns without the stop flag set has
\* emitted n_pitch * n_roll records, the s-th from the s-th instrument
\* read, row by row (pitch outer, roll inner); the pitch axis was jogged
\* n_pitch - 1 times and the roll axis n_roll - 1 times in each row; n is
\* int(|stop - start| / |step| + 1), as the doubles give it, for a swept
\* axis and 1 for an unswept one.
C28_SweepRecords ==
    SweepComplete =>
        /\ Len(emitted) = PitchSteps * RollSteps
        /\ nemits = PitchSteps * RollSteps
        /\ nreads = PitchSteps * RollSteps
        /\ \A s \in 1..Len(emitted) :
              /\ emitted[s].read = s
              /\ emitted[s].row = (s - 1) \div RollSteps
              /\ emitted[s].col = (s - 1) % RollSteps
        /\ njogs["pitch"] = PitchSteps - 1
        /\ njogs["roll"] = PitchSteps * (RollSteps - 1)

\* a sweep of both axes, 2 pitch rows of 3 roll steps, has returned
C28_Witness ==
    /\ SweepComplete
    /\ sweep_roll /\ sweep_pitch
    /\ Len(emitted) = 6
    /\ emitted[4].row = 1 /\ emitted[4].col = 0
    /\ njogs["roll"] = 4 /\ njogs["pitch"] = 1

---------------------------------------------------------------------------
(***************************************************************************)
(* The polling loops of move_stage_to and of level_axes, run to their end: *)
(* move_stage_to on its own with every retry budget from 0 to MaxRetries,  *)
(* and level_axes with its homing loop and its two calls of move_stage_to. *)
(* A running call keeps executing; the device is free to complete a move   *)
(* or a homing or not.                                                     *)
(***************************************************************************)
LoopSteps ==
    \/ LevelHome \/ LevelHomePitch \/ LevelPoll \/ LevelRoll \/ LevelPitch \/ LevelReturn
    \/ LevelPropagate
    \/ MoveAttempt \/ MovePoll \/ MoveFinal \/ MoveRaise

loopctl == <<pc, pcheck, mpc, attempt, check, nmoves>>

SpecLoopsFair ==
    /\ (MoveInit \/ LevelInit)
    /\ [][MoveNext \/ LevelNext]_vars
    /\ WF_loopctl(LoopSteps)

\* the budgets of the loops
WithinBudget ==
    /\ nmoves <= num_retries /\ attempt <= num_retries
    /\ check <= PollLimit /\ pcheck <= PollLimit
    /\ (proc = "move_stage_to" /\ num_retries = 0) =>
          /\ mpc \in {"attempt", "raised"}
          /\ nmoves = 0 /\ init_read = NoValue /\ offset = NoValue
          /\ check = 0 /\ ~seen_close /\ inflight = [a \in Axes |-> 0]

\* the call has returned or raised
LoopsEnded ==
    IF proc = "move_stage_to" THEN mpc \in {"returned", "raised"}
    ELSE pc \in {"done", "raised"}

\* C29: whatever the device reports, move_stage_to sends at most
\* num_retries move_by commands and sleeps at most 20 times per attempt,
\* the homing loop sleeps at most 20 times, with num_retries = 0 the call
\* sends nothing and reads nothing before it raises, and every call ends.
C29_LoopsWithinBudget == []WithinBudget /\ <>LoopsEnded

\* a call with three retries has used them all, each with 20 sleeps, and
\* raised
C29_Witness ==
    /\ proc = "move_stage_to" /\ mpc = "raised"
    /\ num_retries = 3 /\ nmoves = 3 /\ check = PollLimit

---------------------------------------------------------------------------
\* C30: move_stage_to compares positions in one frame: against a device
\* that carries out every move and reports unsigned degrees, a call with at
\* least one attempt returns; it does not raise with the stage standing at
\* the angle equivalent to the target (327.3 deg for the target -32.7).
C30_EquivalentAngleReturns ==
    (proc = "move_stage_to" /\ env = "wrap" /\ num_retries >= 1)
        => mpc # "raised"

---------------------------------------------------------------------------
(***************************************************************************)
(* The two position tests of one attempt of move_stage_to: the while       *)
(* condition of line 93 and the separate read of line 103.                 *)
(***************************************************************************)
\* C31: an attempt of move_stage_to ends as its polling loop ended: it
\* returns when the loop was left on a position within tolerance, and it
\* does not return when the loop was left by the limit of 20 sleeps,
\* whatever the final read of the position reports.
C31_OutcomeFollowsLoop ==
    [][(mpc = "final" /\ mpc' # "final") =>
          (mpc' = "returned" <=> loop_exit = "close")]_vars

---------------------------------------------------------------------------
\* C32: for every input, the result of convert_signed differs from the
\* input by a whole number of turns: it denotes the same orientation.
C32_CongruentModTurn ==
    cpc # "in" => (cy - cx) % (360 * DEG) = 0

\* an input beyond one turn that convert_signed moved by two turns
C32_Witness ==
    /\ cpc = "once"
    /\ cx > 360 * DEG
    /\ cy = cx - 720 * DEG

---------------------------------------------------------------------------
(***************************************************************************)
(* The running peak of PeakFinding.execute (lines 188-224)                 *)
(***************************************************************************)
\* the record emitted last by the peak search
LastRecord == emitted[1]

\* the peak of the last record is the largest reading of the loop and is
\* not below the reading of the record
PeakIsTop ==
    (proc = "PeakFinding" /\ emitted # << >>) =>
        /\ LastRecord.peak = LastRecord.top
        /\ LastRecord.peak >= LastRecord.current
        /\ peak_meas = LastRecord.peak

\* C33: after every iteration of the peak search the running peak equals
\* the largest reading taken in the loop so far, it never decreases inside
\* the loop, and in every emitted record the peak current is at least the
\* detector current.
C33_PeakIsRunningMax ==
    []PeakIsTop /\ [][InLoop => peak_meas' >= peak_meas]_vars

\* a record whose reading is below the peak of an earlier iteration
C33_Witness ==
    /\ proc = "PeakFinding" /\ emitted # << >>
    /\ ~LastRecord.first
    /\ LastRecord.current < LastRecord.peak
    /\ LastRecord.peak = LastRecord.top

---------------------------------------------------------------------------
(***************************************************************************)
(* The counters of PeakFinding.execute (lines 226-258)                     *)
(***************************************************************************)
\* an iteration of the loop has ended: the exit checks are next, or the
\* next jog, or the loop was left
IterationEnd ==
    proc = "PeakFinding" /\ pc \in {"budget", "stop", "jog", "done"}

CountersInRange ==
    IterationEnd =>
        /\ n_reverse \in 0..(rev_thresh - 1)
        /\ n_refine \in 0..(ref_thresh - 1)

\* C34: at the end of every iteration of the peak search the reversal
\* counter is in 0..R-1 and the refinement counter in 0..F-1, and the
\* refinement counter grows only in the threshold block, which is entered
\* only with the reversal counter at R.
C34_CountersBounded ==
    /\ []CountersInRange
    /\ [][proc = "PeakFinding" =>
            /\ n_refine' > n_refine => pc = "peak_pitch"
            /\ (pc = "thresh" /\ pc' = "peak_roll") => n_reverse = rev_thresh
            /\ (pc # "peak_pitch" /\ pc' = "peak_pitch") => pc = "peak_roll"
         ]_vars

\* the refinement counter has reached F in the threshold block, before the
\* refinement block resets it
C34_Witness ==
    /\ proc = "PeakFinding" /\ pc = "refine"
    /\ n_refine = ref_thresh /\ n_reverse = 0

---------------------------------------------------------------------------
\* the k of the progress value emitted last is at most its denominator
ProgressInRange(kk, total) == 100 * kk <= 100 * total

\* C35: no progress value exceeds 100 percent: in AngleSweep k stays below
\* the number of iterations at every emission (so at most that number
\* after the increment), and in the peak search 100 * k / (R * F * 2) is at
\* most 100 whatever the number of reversals.
C35_ProgressAtMost100 ==
    /\ proc = "AngleSweep" =>
          ProgressInRange(k, n_steps_pitch * n_steps_roll)
    /\ proc = "PeakFinding" => ProgressInRange(k, iterations)

---------------------------------------------------------------------------
(***************************************************************************)
(* The exits of the loop of PeakFinding.execute (lines 250-267)            *)
(***************************************************************************)
\* how the loop was left tells which tests held: an exit is taken only when
\* the tests before it failed, and only after a jog, a read and an emission
ExitTaken ==
    (proc = "PeakFinding" /\ pc = "done") =>
        /\ TotalJogs >= 1 /\ nemits = TotalJogs /\ nreads = nemits + 1
        /\ exit_state = "converged" =>
              BelowFloor(step_size) /\ nemits = i + 1
        /\ exit_state = "budget" =>
              ~BelowFloor(step_size) /\ i >= max_meas /\ nemits = i
        /\ exit_state = "cancelled" =>
              /\ ~BelowFloor(step_size) /\ i < max_meas
              /\ stop_flag /\ nemits = i

\* the loop is left only from the three tests, each exit is taken as soon
\* as its test is made and holds, and a set stop flag does not keep the jog
\* or the read from being made
ExitSteps ==
    proc = "PeakFinding" =>
        /\ (pc # "done" /\ pc' = "done") =>
              pc \in {"refine", "budget", "stop"}
        /\ (pc = "refine" /\ halvings' # halvings
               /\ BelowFloor(step_size')) => exit_state' = "converged"
        /\ (pc = "budget" /\ pc' # pc /\ i + 1 >= max_meas) =>
              exit_state' = "budget"
        /\ (pc = "stop" /\ pc' # pc /\ stop_flag) =>
              exit_state' = "cancelled"
        /\ (pc = "jog" /\ pc' # pc /\ stop_flag) => pc' = "read"
        /\ (pc = "read" /\ pc' # pc /\ stop_flag) => pc' = "thresh"

\* C36 as stated: the exit tests of the peak search are made once per
\* iteration, after the jog, the read and the emission, in the order
\* converged, budget, cancelled: the loop is left only from these tests,
\* each exit is taken as soon as its condition holds (a search left as
\* budget-exhausted or cancelled has a step that is not below the floor),
\* and a search cancelled before its first iteration still makes one jog,
\* one read and one emission.
C36_ExitOrder ==
    /\ []ExitTaken
    /\ [][ExitSteps]_vars

\* how the loop was left tells which of the tests made held: the step is
\* compared with the floor only in an iteration that halves it
ExitChecked ==
    (proc = "PeakFinding" /\ pc = "done") =>
        /\ TotalJogs >= 1 /\ nemits = TotalJogs /\ nreads = nemits + 1
        /\ exit_state = "converged" =>
              halvings >= 1 /\ BelowFloor(step_size) /\ nemits = i + 1
        /\ exit_state = "budget" =>
              /\ halvings >= 1 => ~BelowFloor(step_size)
              /\ i >= max_meas /\ nemits = i
        /\ exit_state = "cancelled" =>
              /\ halvings >= 1 => ~BelowFloor(step_size)
              /\ i < max_meas /\ stop_flag /\ nemits = i

\* C36, amended: the budget and the stop flag are tested once per
\* iteration, after the jog, the read and the emission, and the step is
\* compared with the floor before them in the iterations that halve it; the
\* loop is left only from these tests, in the order converged, budget,
\* cancelled, each exit taken as soon as its test is made and holds, and a
\* search cancelled before its first iteration still makes one jog, one
\* read and one emission.
C36_ExitOrderOfTests ==
    /\ []ExitChecked
    /\ [][ExitSteps]_vars

\* a search left as cancelled after one iteration, its step below the floor
\* from the start and never compared with it
C36_Witness ==
    /\ proc = "PeakFinding" /\ pc = "done"
    /\ exit_state = "cancelled"
    /\ i = 1 /\ nemits = 1 /\ TotalJogs = 1 /\ max_meas > 1
    /\ halvings = 0 /\ BelowFloor(step_size)

\* a search that converged in the iteration that used up its budget
C36_BothHold ==
    /\ proc = "PeakFinding" /\ pc = "done"
    /\ exit_state = "converged" /\ i + 1 = max_meas


\* C37: in AngleSweep and VelocityAngleSweep an axis whose sweep flag is off
\* is sent no jog and the run does not end in an error of the procedure's
\* own; an uncancelled call of VelocityAngleSweep.execute ends normally
\* with the pitch axis jogged n_steps_pitch - 1 times.
C37_DisabledAxisUntouched ==
    /\ proc \in {"AngleSweep", "VelocityAngleSweep"} =>
          /\ ~sweep_roll => njogs["roll"] = 0
          /\ ~sweep_pitch => njogs["pitch"] = 0
          /\ (~sweep_roll \/ ~sweep_pitch) => exit_state # "NameError"
    /\ (VelEnded /\ ~stop_flag) =>
          /\ pc = "done"
          /\ njogs["pitch"] = n_steps_pitch - 1

\* C38: when VelocityAngleSweep.startup has passed the programming of the
\* jog parameters, two set_jog_step commands have gone out, the roll axis
\* holds the roll span as its jog step and the pitch axis holds the pitch
\* step.
C38_EachAxisProgrammed ==
    (proc = "VelocityAngleSweep.startup" /\ pc # "v_setjog") =>
       /\ nsetjog = 2
       /\ jog_step["roll"] = Dy(Abs(par.roll_stop - par.roll_start))
       /\ jog_step["pitch"] = Dy(Abs(par.pitch_step))
====
